---- MODULE Spec2Model ----
(***************************************************************************)
(* ProofOfFlip: the Coordinator (dashboard) of the agent casino.           *)
(*                                                                         *)
(* The model follows the dashboard process: the registry                   *)
(* (registerAgent), the battle pool / funded-wallet set / leaderboard      *)
(* singletons (state.ts), the match loop (startCoordinator, runGame,       *)
(* handleDeadAgent, sweepOfflineAgents) and the two agent-facing POST      *)
(* handlers of the server.  The process is a single-threaded event loop:   *)
(* every action below is one run-to-completion segment of a handler,       *)
(* from one `await` to the next.                                           *)
(*                                                                         *)
(* Balances are counted in units of GAME_STAKE (0.01 USDC), so the code's  *)
(* GAME_STAKE is 1 here and MIN_BALANCE_TO_PLAY = GAME_STAKE.              *)
(* Times are in milliseconds.                                              *)
(***************************************************************************)
EXTENDS Integers, Sequences, FiniteSets, TLC

(***************************************************************************)
(* Bounds of the model                                                     *)
(***************************************************************************)
\* registerAgent writes balance 1.0 = 100 stakes; the model starts agents
\* with StartBalance stakes so that `broke` is within reach of MaxGames.
StartBalance == 2
\* gameIds handed out by generateGameId (one per runGame call)
MaxGames == 2
\* games of the longest match loop modelled: one more than it takes an
\* agent to lose its starting balance
MaxMatches == 3
\* AgentInfo objects created over a run (admitted registrations)
MaxAgents == 3
\* donations POST /api/donation-confirmed accepts over a run
MaxPosts == 1
\* POST /play requests an agent receives
MaxPlays == 2
\* transfers third parties send to the opponent's wallet
MaxDonations == 1
\* transfers on the opponent's token account where only the monitor runs
MaxHistory == 3
\* starts of the agent process over the life of its volume
MaxStarts == 4

(***************************************************************************)
(* Program constants                                                       *)
(***************************************************************************)
GAME_STAKE == 1
MIN_BALANCE_TO_PLAY == GAME_STAKE
MAX_ACTIVE_AGENTS == 2
MATCH_INTERVAL_MS == 60000
PING_TIMEOUT_MS == 3000
\* a slip of the keyboard in postToAgent's timeout: 100 s instead of 10 s
PostTimeoutTypo == 10 * 10000
POST_TIMEOUT_MS == 10000

Wallets == {"w1", "w2", "w3"}
\* a string `new PublicKey(...)` rejects
BadAddress == "not-base58"
Rtmr3s == {"r1", "r2"}

NoObj == 0

(***************************************************************************)
(* crypto.ts: ed25519 detached signatures.  A signature is the pair of the *)
(* signing key and the signed bytes; only the holder of a key can build    *)
(* one, which the payload set below respects.                              *)
(***************************************************************************)
signMessage(message, secretKey) == [key |-> secretKey, msg |-> message]

verifySignature(message, signature, publicKey) ==
    /\ signature.key = publicKey
    /\ signature.msg = message

verifyTeeSignature(message, signatureB64, pubkeyHex) ==
    /\ signatureB64.key = pubkeyHex
    /\ signatureB64.msg = message

\* `${agentName}:${walletAddress}:${dockerImage}:${codeHash}:${rtmr3}:${timestamp}`
birthCertMessage(cert) ==
    <<cert.agentName, cert.walletAddress, cert.dockerImage, cert.codeHash,
      cert.rtmr3, cert.timestamp>>

\* `register:${birthCert.walletAddress}:${payload.endpoint}`
regMessage(walletAddress, endpoint) == <<"register", walletAddress, endpoint>>

(***************************************************************************)
(* verify.ts: the attestation verifier.                                    *)
(* A quote is [mock, pccsOk, long, report_data, rtmr3]: `mock` says the    *)
(* base64 decodes to JSON with mock:true; `pccsOk` that the PCCS service   *)
(* parses it; `long` that it has the bytes parseTdxQuoteLocally reads;     *)
(* rtmr3 = "" stands for a quote that exposes no RTMR3.                    *)
(***************************************************************************)
Failed(reason) == [verified |-> FALSE, reason |-> reason, platform |-> "none"]
Verified(platform) == [verified |-> TRUE, reason |-> "ok", platform |-> platform]

AllowlistRejects(cert, expectedRTMR3s) ==
    expectedRTMR3s # {} /\ cert.rtmr3 \notin expectedRTMR3s

\* the mock path without its allowlist check
verifyMockNoAllowlist(cert, expectedRTMR3s) ==
    IF ~verifyTeeSignature(birthCertMessage(cert), cert.teeSignature, cert.teePubkey)
    THEN Failed("TEE signature invalid (mock)")
    ELSE Verified("mock")

verifyMockBirthCert(cert, expectedRTMR3s) ==
    IF ~verifyTeeSignature(birthCertMessage(cert), cert.teeSignature, cert.teePubkey)
    THEN Failed("TEE signature invalid (mock)")
    ELSE IF AllowlistRejects(cert, expectedRTMR3s)
    THEN Failed("not in allowlist")
    ELSE Verified("mock")

\* parseTdxQuoteLocally never throws: a short quote yields empty fields
parseTdxQuoteLocally(q) ==
    IF q.long THEN [report_data |-> q.report_data, rtmr3 |-> q.rtmr3]
    ELSE [report_data |-> "", rtmr3 |-> ""]

\* parseAttestationQuote, falling back to the local parse when PCCS fails
\* (service down, or the service refuses the quote)
ParsedQuoteOf(q, pccsUp) ==
    IF pccsUp /\ q.pccsOk THEN [report_data |-> q.report_data, rtmr3 |-> q.rtmr3]
    ELSE parseTdxQuoteLocally(q)

\* the hardware path without its step 1, checking the signature under the
\* key the certificate claims instead of the key the quote binds
verifyWithoutQuoteKey(cert, expectedRTMR3s, pccsUp) ==
    IF cert.attestationQuote.mock THEN verifyMockBirthCert(cert, expectedRTMR3s)
    ELSE LET parsedQuote == ParsedQuoteOf(cert.attestationQuote, pccsUp)
         IN IF parsedQuote.report_data = "" THEN Failed("Pubkey extraction failed")
            ELSE IF ~verifyTeeSignature(birthCertMessage(cert), cert.teeSignature,
                                        cert.teePubkey)
            THEN Failed("TEE signature on birth cert is invalid")
            ELSE IF parsedQuote.rtmr3 # "" /\ parsedQuote.rtmr3 # cert.rtmr3
            THEN Failed("RTMR3 mismatch")
            ELSE IF AllowlistRejects(cert, expectedRTMR3s)
            THEN Failed("not in allowlist")
            ELSE Verified("tdx")

\* the hardware path with the TEE signature checked before the pubkey match
verifySignatureFirst(cert, expectedRTMR3s, pccsUp) ==
    IF cert.attestationQuote.mock THEN verifyMockBirthCert(cert, expectedRTMR3s)
    ELSE LET parsedQuote == ParsedQuoteOf(cert.attestationQuote, pccsUp)
             quotePubkey == parsedQuote.report_data
         IN IF quotePubkey = "" THEN Failed("Pubkey extraction failed")
            ELSE IF ~verifyTeeSignature(birthCertMessage(cert), cert.teeSignature, quotePubkey)
            THEN Failed("TEE signature on birth cert is invalid")
            ELSE IF quotePubkey # cert.teePubkey THEN Failed("TEE pubkey mismatch")
            ELSE IF parsedQuote.rtmr3 # "" /\ parsedQuote.rtmr3 # cert.rtmr3
            THEN Failed("RTMR3 mismatch")
            ELSE IF AllowlistRejects(cert, expectedRTMR3s)
            THEN Failed("not in allowlist")
            ELSE Verified("tdx")

\* the hardware path with the allowlist consulted before the RTMR3 of the quote
verifyAllowlistFirst(cert, expectedRTMR3s, pccsUp) ==
    IF cert.attestationQuote.mock THEN verifyMockBirthCert(cert, expectedRTMR3s)
    ELSE LET parsedQuote == ParsedQuoteOf(cert.attestationQuote, pccsUp)
             quotePubkey == parsedQuote.report_data
         IN IF quotePubkey = "" THEN Failed("Pubkey extraction failed")
            ELSE IF quotePubkey # cert.teePubkey THEN Failed("TEE pubkey mismatch")
            ELSE IF ~verifyTeeSignature(birthCertMessage(cert), cert.teeSignature, quotePubkey)
            THEN Failed("TEE signature on birth cert is invalid")
            ELSE IF AllowlistRejects(cert, expectedRTMR3s)
            THEN Failed("not in allowlist")
            ELSE IF parsedQuote.rtmr3 # "" /\ parsedQuote.rtmr3 # cert.rtmr3
            THEN Failed("RTMR3 mismatch")
            ELSE Verified("tdx")

verifyBirthCertAttestation(cert, expectedRTMR3s, pccsUp) ==
    IF cert.attestationQuote.mock THEN verifyMockBirthCert(cert, expectedRTMR3s)
    ELSE LET parsedQuote == ParsedQuoteOf(cert.attestationQuote, pccsUp)
             quotePubkey == parsedQuote.report_data
         IN IF quotePubkey = "" THEN Failed("Pubkey extraction failed")
            ELSE IF quotePubkey # cert.teePubkey THEN Failed("TEE pubkey mismatch")
            ELSE IF ~verifyTeeSignature(birthCertMessage(cert), cert.teeSignature, quotePubkey)
            THEN Failed("TEE signature on birth cert is invalid")
            ELSE IF parsedQuote.rtmr3 # "" /\ parsedQuote.rtmr3 # cert.rtmr3
            THEN Failed("RTMR3 mismatch")
            ELSE IF AllowlistRejects(cert, expectedRTMR3s)
            THEN Failed("not in allowlist")
            ELSE Verified("tdx")

(***************************************************************************)
(* Registration payloads the agents (honest or not) send.                  *)
(***************************************************************************)
NameOf(w) == IF w = "w1" THEN "alice" ELSE IF w = "w2" THEN "bob"
             ELSE IF w = "w3" THEN "carol" ELSE "mallory"
TeeKeyOf(w) == IF w = "w1" THEN "tee1" ELSE IF w = "w2" THEN "tee2"
               ELSE IF w = "w3" THEN "tee3" ELSE "tee0"
PublicEndpoint(w) == <<"http", NameOf(w)>>
LocalhostEndpoint == <<"http", "localhost">>
Endpoints == {PublicEndpoint(w) : w \in Wallets} \cup {LocalhostEndpoint, <<>>}

\* the birth certificate agent.ts builds for wallet w inside its TEE
HonestCert(w, mock, r) ==
    LET base == [agentName |-> NameOf(w), walletAddress |-> w,
                 dockerImage |-> "img", codeHash |-> "hash", rtmr3 |-> r,
                 timestamp |-> 1, teePubkey |-> TeeKeyOf(w),
                 attestationQuote |-> [mock |-> mock, pccsOk |-> TRUE, long |-> TRUE,
                                       report_data |-> TeeKeyOf(w), rtmr3 |-> r]]
        msg == birthCertMessage(base)
    IN [agentName |-> base.agentName, walletAddress |-> w,
        dockerImage |-> base.dockerImage, codeHash |-> base.codeHash,
        rtmr3 |-> r, timestamp |-> base.timestamp, teePubkey |-> base.teePubkey,
        attestationQuote |-> base.attestationQuote,
        teeSignature |-> signMessage(msg, TeeKeyOf(w)),
        walletSignature |-> signMessage(msg, w)]

HonestPayload(w, mock, r, e) ==
    [birthCert |-> HonestCert(w, mock, r), endpoint |-> e,
     signature |-> signMessage(regMessage(w, e), w)]

\* the payload of an agent for wallet w that runs under the name `name`
\* (AGENT_NAME is the operator's choice; the registry checks no name)
NamedPayload(w, name) ==
    LET c == [HonestCert(w, TRUE, "r1") EXCEPT !.agentName = name]
        msg == birthCertMessage(c)
    IN [birthCert |-> [c EXCEPT !.teeSignature = signMessage(msg, TeeKeyOf(w)),
                                !.walletSignature = signMessage(msg, w)],
        endpoint |-> PublicEndpoint(w),
        signature |-> signMessage(regMessage(w, PublicEndpoint(w)), w)]

\* one flipped bit in a signature: it verifies under no key
Flip(sig) == [key |-> "none", msg |-> sig.msg]

Tampered(p, how) ==
    LET c == p.birthCert IN
    CASE how = "teeSignature" ->
           [p EXCEPT !.birthCert = [c EXCEPT !.teeSignature = Flip(c.teeSignature)]]
      [] how = "walletSignature" ->
           [p EXCEPT !.birthCert = [c EXCEPT !.walletSignature = Flip(c.walletSignature)]]
      [] how = "signature" ->
           [p EXCEPT !.signature = Flip(p.signature)]
      \* the signature covers another endpoint than the one sent
      [] how = "endpoint" ->
           [p EXCEPT !.signature =
               signMessage(regMessage(c.walletAddress, <<"http", "elsewhere">>), c.walletAddress)]
      \* the quote binds another enclave's key
      [] how = "report_data" ->
           [p EXCEPT !.birthCert = [c EXCEPT !.attestationQuote.report_data = "tee0"]]
      \* the quote measures other code than the certificate claims
      [] how = "quoteRtmr3" ->
           [p EXCEPT !.birthCert = [c EXCEPT !.attestationQuote.rtmr3 = "r2"]]
      \* a wallet address that is no public key; signatures cannot verify
      [] how = "walletAddress" ->
           [p EXCEPT !.birthCert = [c EXCEPT !.walletAddress = BadAddress]]
      [] OTHER -> p

Tampers == {"teeSignature", "walletSignature", "signature", "endpoint",
            "report_data", "quoteRtmr3", "walletAddress"}

\* a certificate of wallet w with every defect of D at once:
\*   "short"        the quote lacks the bytes the local parser reads (the
\*                  PCCS service, when it is up, still parses it)
\*   "pubkey"       the quote binds another enclave's key
\*   "teeSignature" the TEE signature verifies under no key
\*   "quoteRtmr3"   the quote measures other code than the certificate claims
\*   "rtmr3"        the certificate claims a measurement outside the allowlist
Defects == {"short", "pubkey", "teeSignature", "quoteRtmr3", "rtmr3"}

\* the defects the mock path looks at
MockDefects == {"teeSignature", "rtmr3"}

DefectCert(w, mock, D) ==
    LET c == HonestCert(w, mock, IF "rtmr3" \in D THEN "r2" ELSE "r1")
        q == c.attestationQuote
    IN [c EXCEPT
          !.teeSignature = IF "teeSignature" \in D THEN Flip(@) ELSE @,
          !.attestationQuote =
              [mock |-> q.mock,
               pccsOk |-> q.pccsOk,
               long |-> "short" \notin D,
               report_data |-> IF "pubkey" \in D THEN "tee0" ELSE q.report_data,
               rtmr3 |-> IF "quoteRtmr3" \in D THEN "r3" ELSE q.rtmr3]]

\* what the specification of the verifier feeds the registry
DefectPayload(mock, D) ==
    [birthCert |-> DefectCert("w1", mock, D), endpoint |-> PublicEndpoint("w1"),
     signature |-> signMessage(regMessage("w1", PublicEndpoint("w1")), "w1")]

DefectPayloads ==
    {DefectPayload(FALSE, D) : D \in SUBSET Defects}
    \cup {DefectPayload(TRUE, D) : D \in SUBSET MockDefects}

\* what the registry-only specification feeds the registry
Payloads ==
    {HonestPayload(w, TRUE, "r1", PublicEndpoint(w)) : w \in Wallets}
    \cup {HonestPayload("w1", FALSE, "r1", LocalhostEndpoint),
          HonestPayload("w2", TRUE, "r2", <<>>),
          HonestPayload("w3", FALSE, "r2", PublicEndpoint("w3"))}
    \cup {Tampered(HonestPayload("w1", TRUE, "r1", PublicEndpoint("w1")), how) :
            how \in Tampers}
    \cup {Tampered(HonestPayload("w1", FALSE, "r1", PublicEndpoint("w1")), how) :
            how \in {"teeSignature", "report_data", "quoteRtmr3"}}

\* what the specification of the whole Coordinator feeds the registry
MatchPayloads == {HonestPayload(w, TRUE, "r1", PublicEndpoint(w)) : w \in Wallets}

\* two operators that picked the same agent name, and a third agent
SameNamePayloads ==
    {NamedPayload("w1", "alice"), NamedPayload("w2", "alice"),
     HonestPayload("w3", TRUE, "r1", PublicEndpoint("w3"))}

RequestIps == {"10.0.0.7"}

\* registerAgent lines 194-199
CallbackUrl(endpoint, requestIp) ==
    IF endpoint = <<>> \/ endpoint = LocalhostEndpoint
    THEN <<"http", requestIp>> ELSE endpoint

(***************************************************************************)
(* State of the dashboard process                                          *)
(***************************************************************************)
VARIABLES
    heap,            \* the AgentInfo objects ever created, by object id
    poolOrder,       \* BattlePool.agents: its keys in insertion order
    poolObj,         \* BattlePool.agents: wallet -> object id (NoObj: absent)
    fundedWallets,   \* FundedWallets.funded
    games,           \* Leaderboard.games
    rtmr3Allowlist,  \* registry.ts rtmr3Allowlist
    reqs,            \* POST /api/register requests in flight, by connection
    ticks,           \* invocations of the setInterval callback, by slot
    nextGame,        \* gameIds handed out so far, plus one
    vmPending,       \* objects with a checkVmExists call pending
    bcast,           \* the events broadcast() sent during the last step
    reply,           \* the HTTP response written during the last step
    plays,           \* history: state of the two /play dispatches per gameId
    fundCalls,       \* history: fundAgent calls per recipient wallet
    nPosts,          \* donations accepted so far (bounded by MaxPosts)
    agentProc,       \* one agent process: its /play requests and its transfers
    sse              \* sse.ts clients, and what each was written

\* the Coordinator process
coordVars == <<heap, poolOrder, poolObj, fundedWallets, games, rtmr3Allowlist, reqs,
               ticks, nextGame, vmPending, bcast, reply, plays,
               fundCalls, nPosts>>

vars == <<coordVars, agentProc, sse>>

\* connections the registry serves concurrently
ReqSlots == {1, 2}
\* concurrent invocations of the interval callback the model can hold
TickSlots == {1, 2}
GameIds == 1..(IF MaxGames > MaxMatches THEN MaxGames ELSE MaxMatches)

NoPayload == [none |-> TRUE]
IdleReq == [pc |-> "idle", payload |-> NoPayload, ip |-> "-",
            verification |-> Failed("none")]
IdleTick == [pc |-> "idle", a |-> NoObj, b |-> NoObj, winner |-> NoObj,
             loser |-> NoObj, gameId |-> 0, deadline |-> 0]
NoReply == [to |-> "none"]
NoPlays == [winner |-> "none", loser |-> "none"]

\* POST /play requests the agent's server handles concurrently
CmdSlots == {1, 2}
NoCommand == [sender |-> "-", role |-> "-", opponentWallet |-> "-"]
NoResponse == [status |-> 0, body |-> "-", txSignature |-> 0]
IdleCmd == [pc |-> "idle", play |-> 0, command |-> NoCommand, path |-> "-",
            recipient |-> "-", txSignature |-> 0, transfers |-> <<>>,
            response |-> NoResponse]

\* main() of the agent at its first await registerWithDashboard: booted,
\* server listening, the first POST /api/register sent
MainBoot == [pc |-> "registering", i |-> 0, sent |-> 1, registered |-> FALSE,
             lastStatus |-> "-"]

\* invocations of DonationMonitor.poll the model can hold at once (the
\* interval fires every 15 s whether or not the last poll has returned)
PollSlots == {1, 2}
\* DonationMonitor: no poll() running.  `from` is the number of transactions
\* on chain when the poll was called
IdlePoll == [pc |-> "idle", cur |-> 0, rest |-> <<>>, from |-> 0]
\* the opponent's agent process (wallet w2) after createServer and
\* new DonationMonitor(...): empty sets, not initialized, nothing posted.
\* `firstPoll` is the number of transactions on chain when poll() was first
\* called (NotPolled before), kept only where the initial state asks for it
NotPolled == -1
NotKept == -2
OpponentBoot == [gameTxSignatures |-> {}, processedTxs |-> {},
                 initialized |-> FALSE, polls |-> [k \in PollSlots |-> IdlePoll],
                 reported |-> <<>>, firstPoll |-> NotKept]

\* FlipBotAgent and its storage.  In the process: pc, keypair (the wallet's
\* key, "-" before it is set), birthCert, personalityConfig and the RTMR3
\* the TEE measures now; outside it: `disk`, the file agent-state.json;
\* `starts` and `generated` count process starts and Keypair.generate()
\* calls; `first` is the identity the first write to the file held
NoFile == [kind |-> "none"]
TornFile == [kind |-> "torn"]
NoCert == [agentName |-> "-"]
NoIdentity == [walletAddress |-> "-", birthCert |-> NoCert]
\* the process was never started and the volume is empty
Unborn == [pc |-> "down", keypair |-> "-", birthCert |-> NoCert,
           personalityConfig |-> "null", rtmr3 |-> "r1", disk |-> NoFile,
           starts |-> 0, generated |-> 0, first |-> NoIdentity]

\* the agent w1 after a first boot that nothing interrupted
FirstBooted ==
    LET cert == HonestCert("w1", TRUE, "r1")
    IN [pc |-> "booted", keypair |-> "w1", birthCert |-> cert,
        personalityConfig |-> "sealed", rtmr3 |-> "r1",
        disk |-> [kind |-> "json", secretKey |-> <<"w1">>, birthCert |-> cert,
                  personalityConfig |-> "sealed"],
        starts |-> 1, generated |-> 1,
        first |-> [walletAddress |-> "w1", birthCert |-> cert]]

\* createApp: no request yet; the wallet has sent nothing
AgentBoot(opponent) ==
    [cmds |-> [c \in CmdSlots |-> IdleCmd], chain |-> <<>>, nPlays |-> 0,
     opponent |-> opponent, main |-> MainBoot, agent |-> FirstBooted]

\* the dashboard process after main() has run, its allowlist one of
\* `allowlists`
BootCoordinator(allowlists) ==
    /\ heap = <<>>
    /\ poolOrder = <<>>
    /\ poolObj = [w \in Wallets |-> NoObj]
    /\ fundedWallets = {}
    /\ games = <<>>
    \* main(): ALLOWED_RTMR3 preloads the allowlist, else it stays empty
    /\ rtmr3Allowlist \in allowlists
    /\ reqs = [s \in ReqSlots |-> IdleReq]
    /\ ticks = [t \in TickSlots |-> IdleTick]
    /\ nextGame = 1
    /\ vmPending = {}
    /\ bcast = <<>>
    /\ reply = NoReply
    /\ plays = [g \in GameIds |-> NoPlays]
    /\ fundCalls = [w \in Wallets |-> 0]
    /\ nPosts = 0

\* the dashboard and the agent processes after their main() has run
Boot(allowlists) ==
    /\ BootCoordinator(allowlists)
    /\ agentProc = AgentBoot(OpponentBoot)

\* GET /api/events connections the model can hold
SseSlots == {1, 2}
NoClient == [connected |-> FALSE, frames |-> <<>>]
\* sse.ts at module load: no client. `history` is every event broadcast so
\* far, kept only where `keep` asks for it, as are the frames written to a
\* response that has closed
SseBoot(keep) == [clients |-> [k \in SseSlots |-> NoClient], keep |-> keep,
                  history |-> <<>>]

Init == Boot({{"r1"}}) /\ sse = SseBoot(FALSE)

InitRegistry == Boot({{}, {"r1"}}) /\ sse = SseBoot(FALSE)

\* the process with the history of its broadcasts kept
InitEvents == Boot({{"r1"}}) /\ sse = SseBoot(TRUE)

\* the agent's process not started yet, its volume empty
InitBoot ==
    /\ BootCoordinator({{"r1"}})
    /\ agentProc = [AgentBoot(OpponentBoot) EXCEPT
                       !.agent = Unborn,
                       !.main = [MainBoot EXCEPT !.pc = "unborn", !.sent = 0]]
    /\ sse = SseBoot(FALSE)

\* the processes with the chain length at the monitor's first poll kept
InitMonitor ==
    /\ BootCoordinator({{"r1"}})
    /\ agentProc = AgentBoot([OpponentBoot EXCEPT !.firstPoll = NotPolled])
    /\ sse = SseBoot(FALSE)

(***************************************************************************)
(* sse.ts                                                                  *)
(***************************************************************************)
\* broadcast(event), for every event of `events` in turn: one write to
\* each client of the set.  `frames` of a client is what was written to its
\* response: all of it where `keep` asks for it, else the writes of the
\* last step
Broadcast(q, events) ==
    [q EXCEPT !.clients = [k \in SseSlots |->
                             IF q.clients[k].connected
                             THEN [q.clients[k] EXCEPT
                                     !.frames = IF q.keep THEN @ \o events ELSE events]
                             ELSE q.clients[k]],
              !.history = IF q.keep THEN @ \o events ELSE @]

\* the broadcasts of a step of the Coordinator reach the clients in it
Fanout == sse' = Broadcast(sse, bcast')

\* sseHandler: the connected frame is written, the response joins clients
Connect(k) ==
    /\ sse.clients[k] = NoClient
    /\ sse' = [sse EXCEPT !.clients[k] =
                  [connected |-> TRUE, frames |-> <<[type |-> "connected"]>>]]
    /\ UNCHANGED <<coordVars, agentProc>>

\* req.on('close'): the response leaves clients
Close(k) ==
    /\ sse.clients[k].connected
    /\ sse' = [sse EXCEPT !.clients[k] =
                  IF sse.keep THEN [@ EXCEPT !.connected = FALSE] ELSE NoClient]
    /\ UNCHANGED <<coordVars, agentProc>>

SseClients == \E k \in SseSlots : Connect(k) \/ Close(k)

(***************************************************************************)
(* state.ts: BattlePool                                                    *)
(***************************************************************************)
\* BattlePool.get
PoolGet(w) == IF w \in Wallets THEN poolObj[w] ELSE NoObj

\* Array.from(this.agents.values())
PoolValues == [i \in 1..Len(poolOrder) |-> poolObj[poolOrder[i]]]

InPool(o) == \E i \in 1..Len(PoolValues) : PoolValues[i] = o

\* BattlePool.getActive, on heap h
GetActive(h) == SelectSeq(PoolValues, LAMBDA o : h[o].status = "active")

\* BattlePool.getByName: the first agent of that name
GetByName(name) ==
    LET hits == SelectSeq(PoolValues, LAMBDA o : heap[o].agentName = name)
    IN IF hits = <<>> THEN NoObj ELSE Head(hits)

\* BattlePool.markOffline, on heap h
MarkOffline(h, w) ==
    IF PoolGet(w) = NoObj THEN h
    ELSE [h EXCEPT ![PoolGet(w)].status = "offline"]

\* BattlePool.add: Map.set keeps the position of a key it already holds
PoolOrderAdd(w) ==
    IF \E i \in 1..Len(poolOrder) : poolOrder[i] = w THEN poolOrder
    ELSE Append(poolOrder, w)

\* the comparator turned round (a.balance - b.balance): stable, ascending
SortAscending(h, seq) ==
    LET n == Len(seq)
        Before(j, k) == \/ h[seq[j]].balance < h[seq[k]].balance
                        \/ (h[seq[j]].balance = h[seq[k]].balance /\ j < k)
        Pos(k) == 1 + Cardinality({j \in 1..n : Before(j, k)})
    IN [p \in 1..n |-> seq[CHOOSE k \in 1..n : Pos(k) = p]]

\* eligible.sort((a, b) => b.balance - a.balance): stable, descending
SortByBalance(h, seq) ==
    LET n == Len(seq)
        Before(j, k) == \/ h[seq[j]].balance > h[seq[k]].balance
                        \/ (h[seq[j]].balance = h[seq[k]].balance /\ j < k)
        Pos(k) == 1 + Cardinality({j \in 1..n : Before(j, k)})
    IN [p \in 1..n |-> seq[CHOOSE k \in 1..n : Pos(k) = p]]

\* reRank without its filter on offline and deleted agents
RankedAll(h) == SortByBalance(h, PoolValues)

\* reRank filtering out the offline agents only, not the deleted ones
RankedNotOffline(h) ==
    SortByBalance(h, SelectSeq(PoolValues, LAMBDA o : h[o].status # "offline"))

RankedEligible(h) ==
    SortByBalance(h, SelectSeq(PoolValues,
                      LAMBDA o : h[o].status \notin {"offline", "deleted"}))

\* reRank's loop with `i <= MAX_ACTIVE_AGENTS` for `i < MAX_ACTIVE_AGENTS`
RankStatusOffByOne(h, ranked, i) ==
    IF h[ranked[i]].balance < MIN_BALANCE_TO_PLAY THEN "broke"
    ELSE IF i - 1 <= MAX_ACTIVE_AGENTS THEN "active"
    ELSE "benched"

\* reRank's loop without its balance test
RankStatusNoBroke(h, ranked, i) ==
    IF i - 1 < MAX_ACTIVE_AGENTS THEN "active" ELSE "benched"

\* reRank's loop asking for the rank before the balance
RankStatusRankFirst(h, ranked, i) ==
    IF i - 1 < MAX_ACTIVE_AGENTS THEN "active"
    ELSE IF h[ranked[i]].balance < MIN_BALANCE_TO_PLAY THEN "broke"
    ELSE "benched"

\* the status reRank's loop gives the agent at index i (1-based) of `ranked`
RankStatus(h, ranked, i) ==
    IF h[ranked[i]].balance < MIN_BALANCE_TO_PLAY THEN "broke"
    ELSE IF i - 1 < MAX_ACTIVE_AGENTS THEN "active"
    ELSE "benched"

\* BattlePool.reRank on heap h: the new heap and the two returned arrays
ReRank(h) ==
    LET ranked == RankedEligible(h)
        idx == 1..Len(ranked)
        Index(o) == CHOOSE i \in idx : ranked[i] = o
        Changed(i) == RankStatus(h, ranked, i) # h[ranked[i]].status
        h2 == [o \in DOMAIN h |->
                 IF \E i \in idx : ranked[i] = o
                 THEN [h[o] EXCEPT !.status = RankStatus(h, ranked, Index(o))]
                 ELSE h[o]]
    IN [heap |-> h2,
        promoted |-> SelectSeq(ranked, LAMBDA o :
                        Changed(Index(o)) /\ h2[o].status = "active"),
        benched |-> SelectSeq(ranked, LAMBDA o :
                        Changed(Index(o)) /\ h2[o].status \in {"broke", "benched"})]

Event(type, h, o) == [type |-> type, agent |-> o, status |-> h[o].status]
EventsFor(type, h, seq) == [i \in 1..Len(seq) |-> Event(type, h, seq[i])]

(***************************************************************************)
(* registry.ts: registerAgent                                              *)
(***************************************************************************)
\* up to the first await: the handler is entered and calls the verifier
RegReceive(s, p, ip) ==
    /\ reqs[s].pc = "idle"
    /\ \A u \in ReqSlots : u < s => reqs[u].pc # "idle"
    /\ Len(heap) + Cardinality({u \in ReqSlots : reqs[u].pc # "idle"}) < MaxAgents
    /\ reqs' = [reqs EXCEPT ![s] = [IdleReq EXCEPT !.pc = "verify", !.payload = p,
                                                      !.ip = ip]]
    /\ bcast' = <<>>
    /\ reply' = NoReply
    /\ UNCHANGED <<heap, poolOrder, poolObj, fundedWallets, games, rtmr3Allowlist,
                   ticks, nextGame, vmPending, plays, fundCalls, nPosts, agentProc>>
    /\ Fanout

\* steps 2-4 of registerAgent without the registration signature check
RegChecksNoRegSig(p) ==
    LET cert == p.birthCert
        w == cert.walletAddress
    IN IF w = BadAddress THEN "Invalid wallet address"
       ELSE IF ~verifySignature(birthCertMessage(cert), cert.walletSignature, w)
       THEN "Wallet signature on birth cert is invalid"
       ELSE IF PoolGet(w) # NoObj THEN "Agent already registered"
       ELSE "ok"

\* steps 2-4 of registerAgent without the duplicate check
RegChecksNoDuplicate(p) ==
    LET cert == p.birthCert
        w == cert.walletAddress
    IN IF w = BadAddress THEN "Invalid wallet address"
       ELSE IF ~verifySignature(birthCertMessage(cert), cert.walletSignature, w)
       THEN "Wallet signature on birth cert is invalid"
       ELSE IF ~verifySignature(regMessage(w, p.endpoint), p.signature, w)
       THEN "Registration signature invalid"
       ELSE "ok"

\* steps 2-4 of registerAgent: the reason it returns, or "ok"
RegChecks(p) ==
    LET cert == p.birthCert
        w == cert.walletAddress
    IN IF w = BadAddress THEN "Invalid wallet address"
       ELSE IF ~verifySignature(birthCertMessage(cert), cert.walletSignature, w)
       THEN "Wallet signature on birth cert is invalid"
       ELSE IF ~verifySignature(regMessage(w, p.endpoint), p.signature, w)
       THEN "Registration signature invalid"
       ELSE IF PoolGet(w) # NoObj THEN "Agent already registered"
       ELSE "ok"

\* lines 262-272: the AgentInfo object (`sent` keeps what the agent sent)
NewAgent(p, ip) ==
    [agentName |-> p.birthCert.agentName,
     walletAddress |-> p.birthCert.walletAddress,
     endpoint |-> CallbackUrl(p.endpoint, ip),
     birthCert |-> p.birthCert,
     balance |-> StartBalance,
     wins |-> 0, losses |-> 0,
     status |-> "active",
     currentStreak |-> 0, longestStreak |-> 0, totalDonations |-> 0,
     sent |-> [endpoint |-> p.endpoint, signature |-> p.signature]]

\* lines 262-284: create the object, battlePool.add, broadcast, return
Admit(s, verification) ==
    LET p == reqs[s].payload
        w == p.birthCert.walletAddress
        o == Len(heap) + 1
    IN /\ heap' = Append(heap, NewAgent(p, reqs[s].ip))
       /\ poolObj' = [poolObj EXCEPT ![w] = o]
       /\ poolOrder' = PoolOrderAdd(w)
       /\ bcast' = <<[type |-> "agent_joined", agent |-> o, status |-> "active"]>>
       /\ reply' = [to |-> "register", slot |-> s, success |-> TRUE,
                    message |-> <<"Registration successful">>,
                    verification |-> verification]
       /\ reqs' = [reqs EXCEPT ![s] = IdleReq]

\* a registerAgent that adds the agent to the pool before it runs its
\* checks, and then returns the failure
RejectAfterAdd(s, message) ==
    LET p == reqs[s].payload
        w == p.birthCert.walletAddress
    IN /\ reply' = [to |-> "register", slot |-> s, success |-> FALSE,
                    message |-> message]
       /\ reqs' = [reqs EXCEPT ![s] = IdleReq]
       /\ bcast' = <<>>
       /\ IF w \in Wallets /\ PoolGet(w) = NoObj
          THEN /\ heap' = Append(heap, NewAgent(p, reqs[s].ip))
               /\ poolObj' = [poolObj EXCEPT ![w] = Len(heap) + 1]
               /\ poolOrder' = PoolOrderAdd(w)
          ELSE UNCHANGED <<heap, poolOrder, poolObj>>
       /\ UNCHANGED <<fundedWallets, fundCalls>>

\* registerAgent returns { success: false, message }; a message is the
\* sequence of its parts
Reject(s, message) ==
    /\ reply' = [to |-> "register", slot |-> s, success |-> FALSE, message |-> message]
    /\ reqs' = [reqs EXCEPT ![s] = IdleReq]
    /\ bcast' = <<>>
    /\ UNCHANGED <<heap, poolOrder, poolObj, fundedWallets, fundCalls>>

\* from the verifier's answer to the next await (fundAgent) or the return
RegVerified(s, pccsUp) ==
    /\ reqs[s].pc = "verify"
    /\ LET p == reqs[s].payload
           v == verifyBirthCertAttestation(p.birthCert, rtmr3Allowlist, pccsUp)
           w == p.birthCert.walletAddress
       IN IF ~v.verified THEN Reject(s, <<"TEE attestation failed", v.reason>>)
          ELSE IF RegChecks(p) # "ok" THEN Reject(s, <<RegChecks(p)>>)
          ELSE IF w \in fundedWallets
          THEN Admit(s, v) /\ UNCHANGED <<fundedWallets, fundCalls>>
          ELSE /\ reqs' = [reqs EXCEPT ![s].pc = "fund", ![s].verification = v]
               /\ fundCalls' = [fundCalls EXCEPT ![w] = @ + 1]
               /\ bcast' = <<>>
               /\ reply' = NoReply
               /\ UNCHANGED <<heap, poolOrder, poolObj, fundedWallets>>
    /\ UNCHANGED <<games, rtmr3Allowlist, ticks, nextGame, vmPending,
                   plays, nPosts, agentProc>>
    /\ Fanout

\* fundAgent returned (ok) or threw: lines 252-284
RegFunded(s, ok) ==
    /\ reqs[s].pc = "fund"
    /\ fundedWallets' = IF ok THEN fundedWallets \cup {reqs[s].payload.birthCert.walletAddress}
                        ELSE fundedWallets
    /\ Admit(s, reqs[s].verification)
    /\ UNCHANGED <<games, rtmr3Allowlist, ticks, nextGame, vmPending,
                   plays, fundCalls, nPosts, agentProc>>
    /\ Fanout

\* the registry under payloads P and fundAgent outcomes F
Register(P, F) ==
    \/ \E s \in ReqSlots, p \in P, ip \in RequestIps : RegReceive(s, p, ip)
    \/ \E s \in ReqSlots, pccsUp \in BOOLEAN : RegVerified(s, pccsUp)
    \/ \E s \in ReqSlots, ok \in F : RegFunded(s, ok)

(***************************************************************************)
(* coordinator.ts                                                          *)
(***************************************************************************)
\* handleDeadAgent(agent) on heap h: markOffline by wallet; the event
\* carries the object it was called with; checkVmExists is left pending
HandleDeadAgent(h, o) == MarkOffline(h, h[o].walletAddress)

InFlight == {t \in TickSlots : ticks[t].pc # "idle"}

\* setInterval fires the callback: reRank, pickRandomPair, start both pings.
\* `deadline` is the latest time, counted from the last firing of the
\* timer, at which the await a tick is parked on ends: every await of the
\* callback is cut by its timeout.  The timer fires MATCH_INTERVAL_MS after
\* its last firing, so a tick is still parked then only if its deadline
\* lies that far out.
TimerFireUpTo(n, t, i, j) ==
    /\ ticks[t].pc = "idle"
    /\ \A u \in TickSlots : u < t => ticks[u].pc # "idle"
    /\ \A u \in InFlight : ticks[u].deadline >= MATCH_INTERVAL_MS
    /\ nextGame <= n
    /\ LET r == ReRank(heap)
           active == GetActive(r.heap)
       IN /\ heap' = r.heap
          /\ IF Len(active) < 2
             THEN /\ i = 1 /\ j = 1
                  /\ ticks' = [u \in TickSlots |->
                       IF u \in InFlight
                       THEN [ticks[u] EXCEPT !.deadline = @ - MATCH_INTERVAL_MS]
                       ELSE ticks[u]]
             ELSE /\ i \in 1..Len(active) /\ j \in 1..Len(active) /\ i # j
                  /\ ticks' = [u \in TickSlots |->
                       IF u = t
                       THEN [IdleTick EXCEPT !.pc = "ping", !.a = active[i],
                                !.b = active[j], !.deadline = PING_TIMEOUT_MS]
                       ELSE IF u \in InFlight
                       THEN [ticks[u] EXCEPT !.deadline = @ - MATCH_INTERVAL_MS]
                       ELSE ticks[u]]
    /\ bcast' = <<>>
    /\ reply' = NoReply
    /\ UNCHANGED <<poolOrder, poolObj, fundedWallets, games, rtmr3Allowlist, reqs,
                   nextGame, vmPending, plays, fundCalls, nPosts, agentProc>>
    /\ Fanout

TimerFire(t, i, j) == TimerFireUpTo(MaxGames, t, i, j)

\* the callback returning only when both probes failed (`&&` for `||`):
\* with one agent dead the game is still played
PingsDoneBothDead(t, aAlive, bAlive, coinFlip) ==
    /\ ticks[t].pc = "ping"
    /\ LET a == ticks[t].a
           b == ticks[t].b
           h1 == IF aAlive THEN heap ELSE MarkOffline(heap, heap[a].walletAddress)
           h2 == IF bAlive THEN h1 ELSE MarkOffline(h1, h1[b].walletAddress)
           ev1 == IF aAlive THEN <<>> ELSE <<Event("agent_evicted", h1, a)>>
           ev2 == IF bAlive THEN <<>> ELSE <<Event("agent_evicted", h2, b)>>
       IN /\ heap' = h2
          /\ bcast' = ev1 \o ev2
          /\ vmPending' = vmPending \cup (IF aAlive THEN {} ELSE {a})
                                    \cup (IF bAlive THEN {} ELSE {b})
          /\ IF aAlive \/ bAlive
             THEN /\ ticks' = [ticks EXCEPT ![t] =
                       [@ EXCEPT !.pc = "winner",
                                 !.winner = IF coinFlip THEN a ELSE b,
                                 !.loser = IF coinFlip THEN b ELSE a,
                                 !.gameId = nextGame,
                                 !.deadline = @ + POST_TIMEOUT_MS]]
                  /\ nextGame' = nextGame + 1
                  /\ plays' = [plays EXCEPT ![nextGame].winner = "sent"]
             ELSE /\ coinFlip
                  /\ ticks' = [ticks EXCEPT ![t] = IdleTick]
                  /\ UNCHANGED <<nextGame, plays>>
    /\ reply' = NoReply
    /\ UNCHANGED <<poolOrder, poolObj, fundedWallets, games, rtmr3Allowlist, reqs,
                   fundCalls, nPosts, agentProc>>
    /\ Fanout

\* a runGame whose coin is weighted by the balances: the richer agent wins,
\* the coin decides between equals
PingsDoneRicherWins(t, aAlive, bAlive, coinFlip) ==
    /\ ticks[t].pc = "ping"
    /\ LET a == ticks[t].a
           b == ticks[t].b
           h1 == IF aAlive THEN heap ELSE HandleDeadAgent(heap, a)
           h2 == IF bAlive THEN h1 ELSE HandleDeadAgent(h1, b)
           ev1 == IF aAlive THEN <<>> ELSE <<Event("agent_evicted", h1, a)>>
           ev2 == IF bAlive THEN <<>> ELSE <<Event("agent_evicted", h2, b)>>
           aWins == IF heap[a].balance = heap[b].balance THEN coinFlip
                    ELSE heap[a].balance > heap[b].balance
       IN /\ heap' = h2
          /\ bcast' = ev1 \o ev2
          /\ vmPending' = vmPending \cup (IF aAlive THEN {} ELSE {a})
                                    \cup (IF bAlive THEN {} ELSE {b})
          /\ IF aAlive /\ bAlive
             THEN /\ ticks' = [ticks EXCEPT ![t] =
                       [@ EXCEPT !.pc = "winner",
                                 !.winner = IF aWins THEN a ELSE b,
                                 !.loser = IF aWins THEN b ELSE a,
                                 !.gameId = nextGame,
                                 !.deadline = @ + POST_TIMEOUT_MS]]
                  /\ nextGame' = nextGame + 1
                  /\ plays' = [plays EXCEPT ![nextGame].winner = "sent"]
             ELSE /\ coinFlip
                  /\ ticks' = [ticks EXCEPT ![t] = IdleTick]
                  /\ UNCHANGED <<nextGame, plays>>
    /\ reply' = NoReply
    /\ UNCHANGED <<poolOrder, poolObj, fundedWallets, games, rtmr3Allowlist, reqs,
                   fundCalls, nPosts, agentProc>>
    /\ Fanout

\* both pings settled: handleDeadAgent for the dead, else runGame up to
\* its first await (coin flip, /play to the winner)
PingsDone(t, aAlive, bAlive, coinFlip) ==
    /\ ticks[t].pc = "ping"
    /\ LET a == ticks[t].a
           b == ticks[t].b
           h1 == IF aAlive THEN heap ELSE HandleDeadAgent(heap, a)
           h2 == IF bAlive THEN h1 ELSE HandleDeadAgent(h1, b)
           ev1 == IF aAlive THEN <<>> ELSE <<Event("agent_evicted", h1, a)>>
           ev2 == IF bAlive THEN <<>> ELSE <<Event("agent_evicted", h2, b)>>
       IN /\ heap' = h2
          /\ bcast' = ev1 \o ev2
          /\ vmPending' = vmPending \cup (IF aAlive THEN {} ELSE {a})
                                    \cup (IF bAlive THEN {} ELSE {b})
          /\ IF aAlive /\ bAlive
             THEN /\ ticks' = [ticks EXCEPT ![t] =
                       [@ EXCEPT !.pc = "winner",
                                 !.winner = IF coinFlip THEN a ELSE b,
                                 !.loser = IF coinFlip THEN b ELSE a,
                                 !.gameId = nextGame,
                                 !.deadline = @ + POST_TIMEOUT_MS]]
                  /\ nextGame' = nextGame + 1
                  /\ plays' = [plays EXCEPT ![nextGame].winner = "sent"]
             ELSE /\ coinFlip
                  /\ ticks' = [ticks EXCEPT ![t] = IdleTick]
                  /\ UNCHANGED <<nextGame, plays>>
    /\ reply' = NoReply
    /\ UNCHANGED <<poolOrder, poolObj, fundedWallets, games, rtmr3Allowlist, reqs,
                   fundCalls, nPosts, agentProc>>
    /\ Fanout

\* the stats update without the debit of the loser
ApplyResultNoDebit(h, winner, loser) ==
    LET ws == h[winner].currentStreak
        ls == h[loser].currentStreak
        wStreak == IF ws > 0 THEN ws + 1 ELSE 1
        h1 == [h EXCEPT ![winner].wins = @ + 1,
                        ![winner].balance = @ + GAME_STAKE,
                        ![winner].currentStreak = wStreak,
                        ![winner].longestStreak = IF wStreak > @ THEN wStreak ELSE @]
    IN [h1 EXCEPT ![loser].losses = @ + 1,
                  ![loser].currentStreak = IF ls < 0 THEN ls - 1 ELSE -1]

\* lines 309-321: the stats of the two objects
ApplyResult(h, winner, loser) ==
    LET ws == h[winner].currentStreak
        ls == h[loser].currentStreak
        wStreak == IF ws > 0 THEN ws + 1 ELSE 1
        h1 == [h EXCEPT ![winner].wins = @ + 1,
                        ![winner].balance = @ + GAME_STAKE,
                        ![winner].currentStreak = wStreak,
                        ![winner].longestStreak = IF wStreak > @ THEN wStreak ELSE @]
    IN [h1 EXCEPT ![loser].losses = @ + 1,
                  ![loser].balance = @ - GAME_STAKE,
                  ![loser].currentStreak = IF ls < 0 THEN ls - 1 ELSE -1]

\* lines 295-304, without the timestamp and the optional txSignature
GameResultOf(h, g, winner, loser, response) ==
    [gameId |-> g,
     winner |-> h[winner].agentName, loser |-> h[loser].agentName,
     winnerWallet |-> h[winner].walletAddress,
     loserWallet |-> h[loser].walletAddress,
     stakeAmount |-> GAME_STAKE]

\* runGame without the check of the winner's response: the loser is
\* asked to play whatever the winner answered
WinnerDoneNoAbort(t, acked) ==
    /\ ticks[t].pc = "winner"
    /\ ticks' = [ticks EXCEPT ![t].pc = "loser", ![t].deadline = @ + POST_TIMEOUT_MS]
    /\ plays' = [plays EXCEPT ![ticks[t].gameId] =
                   [winner |-> IF acked THEN "acked" ELSE "failed", loser |-> "sent"]]
    /\ bcast' = <<>>
    /\ reply' = NoReply
    /\ UNCHANGED <<heap, vmPending, poolOrder, poolObj, fundedWallets, games,
                   rtmr3Allowlist, reqs, nextGame, fundCalls, nPosts, agentProc>>
    /\ Fanout

\* runGame recording the result as soon as the winner has answered,
\* before the loser is asked to pay
WinnerDoneRecordFirst(t, acked) ==
    /\ ticks[t].pc = "winner"
    /\ LET winner == ticks[t].winner
           loser == ticks[t].loser
           g == ticks[t].gameId
       IN IF acked
          THEN /\ ticks' = [ticks EXCEPT ![t].pc = "loser",
                                         ![t].deadline = @ + POST_TIMEOUT_MS]
               /\ plays' = [plays EXCEPT ![g] = [winner |-> "acked", loser |-> "sent"]]
               /\ heap' = ReRank(ApplyResult(heap, winner, loser)).heap
               /\ games' = Append(games, GameResultOf(heap, g, winner, loser, "paid"))
               /\ bcast' = <<[type |-> "game_result", gameId |-> g]>>
               /\ UNCHANGED vmPending
          ELSE /\ heap' = HandleDeadAgent(heap, winner)
               /\ bcast' = <<Event("agent_evicted", heap', winner)>>
               /\ vmPending' = vmPending \cup {winner}
               /\ plays' = [plays EXCEPT ![g].winner = "failed"]
               /\ ticks' = [ticks EXCEPT ![t] = IdleTick]
               /\ UNCHANGED games
    /\ reply' = NoReply
    /\ UNCHANGED <<poolOrder, poolObj, fundedWallets, rtmr3Allowlist, reqs,
                   nextGame, fundCalls, nPosts, agentProc>>
    /\ Fanout

\* the winner's /play settled: abort on null, else /play to the loser
WinnerDone(t, acked) ==
    /\ ticks[t].pc = "winner"
    /\ LET winner == ticks[t].winner
           g == ticks[t].gameId
       IN IF acked
          THEN /\ ticks' = [ticks EXCEPT ![t].pc = "loser",
                                         ![t].deadline = @ + POST_TIMEOUT_MS]
               /\ plays' = [plays EXCEPT ![g] = [winner |-> "acked", loser |-> "sent"]]
               /\ bcast' = <<>>
               /\ UNCHANGED <<heap, vmPending>>
          ELSE /\ heap' = HandleDeadAgent(heap, winner)
               /\ bcast' = <<Event("agent_evicted", heap', winner)>>
               /\ vmPending' = vmPending \cup {winner}
               /\ plays' = [plays EXCEPT ![g].winner = "failed"]
               /\ ticks' = [ticks EXCEPT ![t] = IdleTick]
    /\ reply' = NoReply
    /\ UNCHANGED <<poolOrder, poolObj, fundedWallets, games, rtmr3Allowlist, reqs,
                   nextGame, fundCalls, nPosts, agentProc>>
    /\ Fanout

\* the rest of runGame with game_result broadcast before the re-rank's events
LoserDoneResultFirst(t, response) ==
    /\ ticks[t].pc = "loser"
    /\ LET winner == ticks[t].winner
           loser == ticks[t].loser
           g == ticks[t].gameId
           dead == response = "null"
           h1 == IF dead THEN HandleDeadAgent(heap, loser) ELSE heap
           ev1 == IF dead THEN <<Event("agent_evicted", h1, loser)>> ELSE <<>>
           result == GameResultOf(h1, g, winner, loser, response)
           r == ReRank(ApplyResult(h1, winner, loser))
       IN /\ heap' = r.heap
          /\ games' = Append(games, result)
          /\ vmPending' = vmPending \cup (IF dead THEN {loser} ELSE {})
          /\ bcast' = ev1 \o <<[type |-> "game_result", gameId |-> g]>>
                          \o EventsFor("agent_evicted", r.heap, r.benched)
                          \o EventsFor("agent_joined", r.heap, r.promoted)
          /\ plays' = [plays EXCEPT ![g].loser = IF dead THEN "failed" ELSE "acked"]
          /\ ticks' = [ticks EXCEPT ![t] = IdleTick]
    /\ reply' = NoReply
    /\ UNCHANGED <<poolOrder, poolObj, fundedWallets, rtmr3Allowlist, reqs,
                   nextGame, fundCalls, nPosts, agentProc>>
    /\ Fanout

\* runGame returning, as for the winner, when the loser's /play failed
LoserDoneAbort(t, response) ==
    /\ ticks[t].pc = "loser"
    /\ LET winner == ticks[t].winner
           loser == ticks[t].loser
           g == ticks[t].gameId
           dead == response = "null"
           h1 == IF dead THEN HandleDeadAgent(heap, loser) ELSE heap
           ev1 == IF dead THEN <<Event("agent_evicted", h1, loser)>> ELSE <<>>
           result == GameResultOf(h1, g, winner, loser, response)
           r == ReRank(ApplyResult(h1, winner, loser))
       IN /\ heap' = IF dead THEN h1 ELSE r.heap
          /\ games' = IF dead THEN games ELSE Append(games, result)
          /\ vmPending' = vmPending \cup (IF dead THEN {loser} ELSE {})
          /\ bcast' = IF dead THEN ev1
                      ELSE EventsFor("agent_evicted", r.heap, r.benched)
                              \o EventsFor("agent_joined", r.heap, r.promoted)
                              \o <<[type |-> "game_result", gameId |-> g]>>
          /\ plays' = [plays EXCEPT ![g].loser = IF dead THEN "failed" ELSE "acked"]
          /\ ticks' = [ticks EXCEPT ![t] = IdleTick]
    /\ reply' = NoReply
    /\ UNCHANGED <<poolOrder, poolObj, fundedWallets, rtmr3Allowlist, reqs,
                   nextGame, fundCalls, nPosts, agentProc>>
    /\ Fanout

\* the loser's /play settled ("paid", "payment_failed" or null): the rest
\* of runGame, lines 290-349
LoserDone(t, response) ==
    /\ ticks[t].pc = "loser"
    /\ LET winner == ticks[t].winner
           loser == ticks[t].loser
           g == ticks[t].gameId
           dead == response = "null"
           h1 == IF dead THEN HandleDeadAgent(heap, loser) ELSE heap
           ev1 == IF dead THEN <<Event("agent_evicted", h1, loser)>> ELSE <<>>
           result == GameResultOf(h1, g, winner, loser, response)
           r == ReRank(ApplyResult(h1, winner, loser))
       IN /\ heap' = r.heap
          /\ games' = Append(games, result)
          /\ vmPending' = vmPending \cup (IF dead THEN {loser} ELSE {})
          /\ bcast' = ev1 \o EventsFor("agent_evicted", r.heap, r.benched)
                          \o EventsFor("agent_joined", r.heap, r.promoted)
                          \o <<[type |-> "game_result", gameId |-> g]>>
          /\ plays' = [plays EXCEPT ![g].loser = IF dead THEN "failed" ELSE "acked"]
          /\ ticks' = [ticks EXCEPT ![t] = IdleTick]
    /\ reply' = NoReply
    /\ UNCHANGED <<poolOrder, poolObj, fundedWallets, rtmr3Allowlist, reqs,
                   nextGame, fundCalls, nPosts, agentProc>>
    /\ Fanout

\* a checkVmExists call settles: the .then callback of handleDeadAgent
\* (lines 229-238) or the continuation of the sweep's loop (lines 358-362)
VmCheckDone(o, exists) ==
    /\ o \in vmPending
    /\ vmPending' = vmPending \ {o}
    /\ heap' = IF exists = "false" THEN [heap EXCEPT ![o].status = "deleted"] ELSE heap
    /\ bcast' = <<>>
    /\ reply' = NoReply
    /\ UNCHANGED <<poolOrder, poolObj, fundedWallets, games, rtmr3Allowlist, reqs,
                   ticks, nextGame, plays, fundCalls, nPosts, agentProc>>
    /\ Fanout

\* sweepOfflineAgents: the offline agents of the pool are queued for a
\* checkVmExists each.  The loop awaits them one after the other; the model
\* lets them settle in any order.
SweepOfflineAgents ==
    LET offline == {o \in 1..Len(heap) : InPool(o) /\ heap[o].status = "offline"}
    IN /\ offline \ vmPending # {}
       /\ vmPending' = vmPending \cup offline
       /\ bcast' = <<>>
       /\ reply' = NoReply
       /\ UNCHANGED <<heap, poolOrder, poolObj, fundedWallets, games, rtmr3Allowlist,
                      reqs, ticks, nextGame, plays, fundCalls, nPosts, agentProc>>
       /\ Fanout

VmAnswers == {"true", "false", "null"}
PlayAnswers == {"paid", "payment_failed", "null"}

\* the match loop, stopped after n games were started
MatchLoopUpTo(n) ==
    \/ \E t \in TickSlots, i, j \in 1..Cardinality(Wallets) : TimerFireUpTo(n, t, i, j)
    \/ \E t \in TickSlots, aAlive, bAlive, coinFlip \in BOOLEAN :
          PingsDone(t, aAlive, bAlive, coinFlip)
    \/ \E t \in TickSlots, acked \in BOOLEAN : WinnerDone(t, acked)
    \/ \E t \in TickSlots, response \in PlayAnswers : LoserDone(t, response)
    \/ \E o \in 1..Len(heap), exists \in VmAnswers : VmCheckDone(o, exists)
    \/ SweepOfflineAgents

MatchLoop == MatchLoopUpTo(MaxGames)

(***************************************************************************)
(* server.ts: the two POST handlers agents call                            *)
(***************************************************************************)
AgentNames == {"alice", "nobody"}

\* the handler without its getByName check
AgentMessageNoCheck(agentName, urgency) ==
    /\ reply' = [to |-> "agent-message", status |-> 200]
    /\ bcast' = <<[type |-> IF urgency = "desperate" THEN "agent_desperate"
                            ELSE "trash_talk",
                   name |-> agentName]>>
    /\ UNCHANGED <<heap, poolOrder, poolObj, fundedWallets, games, rtmr3Allowlist,
                   reqs, ticks, nextGame, vmPending, plays, fundCalls, nPosts, agentProc>>
    /\ Fanout

\* POST /api/agent-message with a non-empty message
AgentMessage(agentName, urgency) ==
    /\ IF GetByName(agentName) = NoObj
       THEN /\ reply' = [to |-> "agent-message", status |-> 403]
            /\ bcast' = <<>>
       ELSE /\ reply' = [to |-> "agent-message", status |-> 200]
            /\ bcast' = <<[type |-> IF urgency = "desperate" THEN "agent_desperate"
                                    ELSE "trash_talk",
                           name |-> agentName]>>
    /\ UNCHANGED <<heap, poolOrder, poolObj, fundedWallets, games, rtmr3Allowlist,
                   reqs, ticks, nextGame, vmPending, plays, fundCalls, nPosts, agentProc>>
    /\ Fanout

\* POST /api/donation-confirmed with donor and amount present
DonationConfirmed(agentName, amount) ==
    /\ nPosts < MaxPosts
    /\ LET o == GetByName(agentName)
       IN IF o = NoObj
          THEN /\ reply' = [to |-> "donation-confirmed", status |-> 403]
               /\ bcast' = <<>>
               /\ UNCHANGED <<heap, nPosts>>
          ELSE /\ heap' = [heap EXCEPT ![o].totalDonations = @ + amount]
               /\ nPosts' = nPosts + 1
               /\ reply' = [to |-> "donation-confirmed", status |-> 200]
               /\ bcast' = <<[type |-> "donation", name |-> agentName]>>
    /\ UNCHANGED <<poolOrder, poolObj, fundedWallets, games, rtmr3Allowlist, reqs,
                   ticks, nextGame, vmPending, plays, fundCalls, agentProc>>
    /\ Fanout

\* donation posts naming one of `names`
Donations(names) == \E n \in names, amount \in {25} : DonationConfirmed(n, amount)

AgentPosts ==
    \/ \E n \in AgentNames, u \in {"normal", "desperate"} : AgentMessage(n, u)
    \/ Donations(AgentNames)

(***************************************************************************)
(* agent: POST /play (server.ts) and GameService (game.ts)                 *)
(***************************************************************************)
\* the amount of a stake transfer, counted in stakes
GAME_STAKE_LAMPORTS == GAME_STAKE

\* GameCommand bodies, with who posted them (the handler reads the body
\* only): the Coordinator's name the opponent's registered wallet w2; any
\* other sender writes what it likes (role is read as a string)
Commands ==
    {[sender |-> "coordinator", role |-> r, opponentWallet |-> "w2"] :
        r \in {"winner", "loser"}}
    \cup {[sender |-> "stranger", role |-> r, opponentWallet |-> "w3"] :
        r \in {"winner", "loser", "none"}}

\* what GET opponentEndpoint/collect comes back with: no answer, a status
\* other than 402, or 402 with a body that is not JSON, that declares no
\* usable address, or that declares a wallet
CollectAnswers ==
    {[status |-> "unreachable", address |-> "-"],
     [status |-> "200", address |-> "-"],
     [status |-> "402", address |-> "not-json"],
     [status |-> "402", address |-> BadAddress],
     [status |-> "402", address |-> "w2"],
     [status |-> "402", address |-> "w3"]}

\* what the follow-up GET /collect with X-Payment comes back with
RetryAnswers == {"200", "400", "unreachable"}

Cmd(c) == agentProc.cmds[c]

\* directTransfer(recipientAddress) is entered on path `path`
DirectTransfer(m, path, to) ==
    [m EXCEPT !.pc = "send", !.path = path, !.recipient = to,
              !.transfers = Append(@, [path |-> path, to |-> to])]

\* POST /play, the catch around payWinner: 500 payment_failed
PlayCatch(m) ==
    [m EXCEPT !.pc = "idle",
              !.response = [status |-> 500, body |-> "payment_failed",
                            txSignature |-> 0]]

\* POST /play after payWinner returned: 200 paid
PlayPaid(m, sig) ==
    [m EXCEPT !.pc = "idle",
              !.response = [status |-> 200, body |-> "paid", txSignature |-> sig]]

\* an exception inside payWinner: whatever payViaX402 throws is caught and
\* answered with directTransfer(opponentWallet); what that one throws
\* reaches the handler
PayWinnerThrow(m) ==
    IF m.path = "x402"
    THEN DirectTransfer(m, "fallback", m.command.opponentWallet)
    ELSE PlayCatch(m)

\* POST /play up to its first await: the winner is acknowledged, any other
\* role pays: payWinner -> payViaX402 -> fetch(opponentEndpoint/collect)
PlayReceive(c, command) ==
    /\ Cmd(c).pc = "idle"
    /\ agentProc.nPlays < MaxPlays
    /\ LET m == [IdleCmd EXCEPT !.play = agentProc.nPlays + 1, !.command = command]
       IN agentProc' = [agentProc EXCEPT
              !.nPlays = @ + 1,
              !.cmds[c] =
                  IF command.role = "winner"
                  THEN [m EXCEPT !.response = [status |-> 200, body |-> "acknowledged",
                                               txSignature |-> 0]]
                  ELSE [m EXCEPT !.pc = "collect", !.path = "x402"]]
    /\ UNCHANGED <<coordVars, sse>>

\* payViaX402 step 1 answered: a status other than 402, an unparseable body
\* or an address PublicKey refuses throw; else directTransfer(declared address)
CollectAnswered(c, answer) ==
    /\ Cmd(c).pc = "collect"
    /\ agentProc' = [agentProc EXCEPT !.cmds[c] =
           IF /\ answer.status = "402"
              /\ answer.address \in Wallets
           THEN DirectTransfer(@, "x402", answer.address)
           ELSE PayWinnerThrow(@)]
    /\ UNCHANGED <<coordVars, sse>>

\* directTransfer up to sendTransaction: the transaction is on its way, or
\* the RPC (account creation, send) threw
TransferSent(c, ok) ==
    /\ Cmd(c).pc = "send"
    /\ LET sig == Len(agentProc.chain) + 1
       IN agentProc' =
              IF ok
              THEN [agentProc EXCEPT
                      !.chain = Append(@, [txSignature |-> sig,
                                           to |-> Cmd(c).recipient,
                                           amount |-> GAME_STAKE_LAMPORTS,
                                           play |-> Cmd(c).play,
                                           command |-> Cmd(c).command]),
                      !.cmds[c] = [@ EXCEPT !.pc = "confirm", !.txSignature = sig]]
              ELSE [agentProc EXCEPT !.cmds[c] = PayWinnerThrow(@)]
    /\ UNCHANGED <<coordVars, sse>>

\* confirmTransaction answered: directTransfer returns the signature (to
\* payViaX402, which retries /collect with X-Payment, or to payWinner), or
\* the confirmation threw
TransferConfirmed(c, ok) ==
    /\ Cmd(c).pc = "confirm"
    /\ agentProc' = [agentProc EXCEPT !.cmds[c] =
           IF ~ok THEN PayWinnerThrow(@)
           ELSE IF @.path = "x402" THEN [@ EXCEPT !.pc = "retry"]
           ELSE PlayPaid(@, @.txSignature)]
    /\ UNCHANGED <<coordVars, sse>>

\* GET /collect with an X-Payment header, in the opponent's process: the
\* signature the header names joins gameTxSignatures (answer 200 collected)
CollectPayment(o, sig) == [o EXCEPT !.gameTxSignatures = @ \cup {sig}]

\* payViaX402 step 3 answered: 200 is the opponent's /collect having taken
\* the header; a status that is not ok is only logged; a fetch that
\* rejects throws
RetryAnswered(c, answer) ==
    /\ Cmd(c).pc = "retry"
    /\ agentProc' = [agentProc EXCEPT
           !.cmds[c] = IF answer = "unreachable" THEN PayWinnerThrow(@)
                       ELSE PlayPaid(@, @.txSignature),
           !.opponent = IF answer = "200"
                        THEN CollectPayment(@, Cmd(c).txSignature)
                        ELSE @]
    /\ UNCHANGED <<coordVars, sse>>

\* POST /play and the payment it starts, for commands of C and answers of
\* the first GET /collect of A
Play(C, A) ==
    \/ \E c \in CmdSlots, command \in C : PlayReceive(c, command)
    \/ \E c \in CmdSlots, answer \in A : CollectAnswered(c, answer)
    \/ \E c \in CmdSlots, ok \in BOOLEAN : TransferSent(c, ok)
    \/ \E c \in CmdSlots, ok \in BOOLEAN : TransferConfirmed(c, ok)
    \/ \E c \in CmdSlots, answer \in RetryAnswers : RetryAnswered(c, answer)

AgentPlay == Play(Commands, CollectAnswers)

(***************************************************************************)
(* agent: DonationMonitor (donation-monitor.ts), in the opponent's process *)
(***************************************************************************)
\* getSignaturesForAddress(ata, { limit: 20 })
SIGNATURE_LIMIT == 20

\* what a donor sends, counted in stakes (0.25 against a stake of 0.01)
DonationAmount == 25

Opponent == agentProc.opponent

\* the wallet whose token account the monitor watches
OpponentWallet == "w2"

\* a third party transfers to the opponent's token account, as long as
\* fewer than n third-party transfers were made
DonateUpTo(n) ==
    /\ Cardinality({k \in 1..Len(agentProc.chain) :
                        agentProc.chain[k].play = 0}) < n
    /\ agentProc' = [agentProc EXCEPT
           !.chain = Append(@, [txSignature |-> Len(@) + 1,
                                to |-> OpponentWallet,
                                amount |-> DonationAmount,
                                play |-> 0,
                                command |-> NoCommand])]
    /\ UNCHANGED <<coordVars, sse>>

Donate == DonateUpTo(MaxDonations)

\* the signatures of the transactions on the token account of w, newest first
RECURSIVE SignaturesOf(_, _)
SignaturesOf(chain, w) ==
    IF chain = <<>> THEN <<>>
    ELSE LET last == chain[Len(chain)]
             older == SignaturesOf(SubSeq(chain, 1, Len(chain) - 1), w)
         IN IF last.to = w THEN <<last.txSignature>> \o older ELSE older

\* getSignaturesForAddress: the newest SIGNATURE_LIMIT of them
GetSignaturesForAddress(chain, w) ==
    LET all == SignaturesOf(chain, w)
    IN IF Len(all) <= SIGNATURE_LIMIT THEN all ELSE SubSeq(all, 1, SIGNATURE_LIMIT)

\* a loop that marks a signature as processed only after its parseDonation
RECURSIVE PollLoopMarkLate(_, _, _)
PollLoopMarkLate(o, k, sigs) ==
    LET done == IF o.polls[k].pc = "parse"
                THEN [o EXCEPT !.processedTxs = @ \cup {o.polls[k].cur},
                               !.polls[k].pc = "loop"]
                ELSE o
    IN IF sigs = <<>> THEN [done EXCEPT !.polls[k] = IdlePoll]
       ELSE IF Head(sigs) \in done.processedTxs \cup done.gameTxSignatures
            THEN PollLoopMarkLate(done, k, Tail(sigs))
            ELSE [done EXCEPT !.polls[k] = [pc |-> "parse", cur |-> Head(sigs),
                                            rest |-> Tail(sigs), from |-> 0]]

\* poll k's for loop from `sigs` on, up to its next await: processed and
\* game signatures are skipped, the first other one is marked processed and
\* parseDonation(txSig) is awaited
RECURSIVE PollLoop(_, _, _)
PollLoop(o, k, sigs) ==
    IF sigs = <<>> THEN [o EXCEPT !.polls[k] = IdlePoll]
    ELSE IF Head(sigs) \in o.processedTxs \cup o.gameTxSignatures
         THEN PollLoop(o, k, Tail(sigs))
         ELSE [o EXCEPT !.processedTxs = @ \cup {Head(sigs)},
                        !.polls[k] = [pc |-> "parse", cur |-> Head(sigs),
                                      rest |-> Tail(sigs), from |-> 0]]

\* the interval (or the initial timeout) fires: poll() up to
\* await getSignaturesForAddress
PollStart(k) ==
    /\ Opponent.polls[k].pc = "idle"
    /\ \A u \in PollSlots : u < k => Opponent.polls[u].pc # "idle"
    /\ agentProc' = [agentProc EXCEPT
           !.opponent.polls[k] = [IdlePoll EXCEPT !.pc = "list",
                                                  !.from = Len(agentProc.chain)],
           !.opponent.firstPoll = IF @ = NotPolled THEN Len(agentProc.chain) ELSE @]
    /\ UNCHANGED <<coordVars, sse>>

\* a poll without the first-run branch: the first list is looped over like
\* any other
PollListedNoFirstRun(k, ok, n) ==
    /\ Opponent.polls[k].pc = "list"
    /\ n \in Opponent.polls[k].from..Len(agentProc.chain)
    /\ LET signatures == GetSignaturesForAddress(SubSeq(agentProc.chain, 1, n),
                                                 OpponentWallet)
       IN agentProc' = [agentProc EXCEPT !.opponent =
              IF ~ok THEN [@ EXCEPT !.polls[k] = IdlePoll]
              ELSE PollLoop([@ EXCEPT !.initialized = TRUE], k, signatures)]
    /\ UNCHANGED <<coordVars, sse>>

\* getSignaturesForAddress answered with the list as it was when the chain
\* held n transactions (some moment between the call and the answer): a
\* failure ends the poll; the first list marks everything processed; a
\* later one enters the loop
PollListed(k, ok, n) ==
    /\ Opponent.polls[k].pc = "list"
    /\ n \in Opponent.polls[k].from..Len(agentProc.chain)
    /\ LET signatures == GetSignaturesForAddress(SubSeq(agentProc.chain, 1, n),
                                                 OpponentWallet)
           seen == {signatures[i] : i \in 1..Len(signatures)}
       IN agentProc' = [agentProc EXCEPT !.opponent =
              IF ~ok THEN [@ EXCEPT !.polls[k] = IdlePoll]
              ELSE IF ~@.initialized
                   THEN [@ EXCEPT !.processedTxs = @ \cup seen,
                                  !.initialized = TRUE,
                                  !.polls[k] = IdlePoll]
                   ELSE PollLoop(@, k, signatures)]
    /\ UNCHANGED <<coordVars, sse>>

\* parseDonation and handleDonation for the current signature: a transfer
\* to the own token account is posted to /api/donation-confirmed; an RPC
\* or message failure is logged; the loop goes on
PollParsed(k, found) ==
    /\ Opponent.polls[k].pc = "parse"
    /\ LET sig == Opponent.polls[k].cur
           post == [txSignature |-> sig, amount |-> agentProc.chain[sig].amount]
       IN agentProc' = [agentProc EXCEPT !.opponent =
              PollLoop(IF found THEN [@ EXCEPT !.reported = Append(@, post)] ELSE @,
                       k, @.polls[k].rest)]
    /\ UNCHANGED <<coordVars, sse>>

\* the monitor with the poll() invocations of K
DonationMonitorOver(K) ==
    \/ \E k \in K : PollStart(k)
    \/ \E k \in K, ok \in BOOLEAN, n \in 0..Len(agentProc.chain) : PollListed(k, ok, n)
    \/ \E k \in K, found \in BOOLEAN : PollParsed(k, found)

\* the monitor whose polls return before the interval fires again
DonationMonitor == DonationMonitorOver({1})

(***************************************************************************)
(* agent: FlipBotAgent.boot (agent.ts) and FileStorageProvider             *)
(***************************************************************************)
Agent == agentProc.agent

\* Keypair.generate(): the n-th key the process draws
GeneratedKey(n) == IF n = 1 THEN "w1" ELSE IF n = 2 THEN "w2" ELSE "w3"

\* JSON.stringify(state): a personalityConfig that is undefined is left out
Stringify(secretKey, birthCert, personalityConfig) ==
    IF personalityConfig = "null"
    THEN [kind |-> "json", secretKey |-> <<secretKey>>, birthCert |-> birthCert]
    ELSE [kind |-> "json", secretKey |-> <<secretKey>>, birthCert |-> birthCert,
          personalityConfig |-> personalityConfig]

\* loadState: Keypair.fromSecretKey(Uint8Array.from(state.secretKey)),
\* state.birthCert, state.personalityConfig || null
Loaded(file) ==
    [keypair |-> file.secretKey[1],
     birthCert |-> file.birthCert,
     personalityConfig |-> IF "personalityConfig" \in DOMAIN file
                           THEN file.personalityConfig ELSE "null"]

\* persistState: writeFileSync of the stringified state
PersistState(a) ==
    LET file == Stringify(a.keypair, a.birthCert, a.personalityConfig)
    IN [a EXCEPT !.disk = file,
                 !.first = IF @ = NoIdentity
                           THEN [walletAddress |-> a.keypair, birthCert |-> a.birthCert]
                           ELSE @]

\* the end of boot() up to its write: the personality is resolved, and
\* persisted, if the state held none
SealPersonality(a) ==
    IF a.personalityConfig = "null"
    THEN [a EXCEPT !.personalityConfig = "sealed", !.pc = "seal"]
    ELSE [a EXCEPT !.pc = "booted"]

\* the process is started (again), the TEE measuring r
Start(r) ==
    /\ Agent.pc \in {"down", "failed"}
    /\ Agent.starts < MaxStarts
    /\ agentProc' = [agentProc EXCEPT !.agent =
           [@ EXCEPT !.pc = "boot", !.keypair = "-", !.birthCert = NoCert,
                     !.personalityConfig = "null", !.rtmr3 = r,
                     !.starts = @ + 1]]
    /\ UNCHANGED <<coordVars, sse>>

\* a boot that takes an RTMR3 differing from the stored one for the loss of
\* its identity and runs firstBoot again
BootRegenerateOnDrift ==
    /\ Agent.pc = "boot"
    /\ agentProc' = [agentProc EXCEPT !.agent =
           IF @.disk = TornFile THEN [@ EXCEPT !.pc = "failed"]
           ELSE IF @.disk = NoFile \/ @.disk.birthCert.rtmr3 # @.rtmr3
           THEN [@ EXCEPT !.pc = "firstBoot",
                          !.generated = @ + 1,
                          !.keypair = GeneratedKey(Agent.generated + 1)]
           ELSE LET l == Loaded(@.disk)
                IN SealPersonality([@ EXCEPT !.keypair = l.keypair,
                                             !.birthCert = l.birthCert,
                                             !.personalityConfig = l.personalityConfig])]
    /\ UNCHANGED <<coordVars, sse>>

\* boot(): storage.exists; with a file, loadState (JSON.parse throws on a
\* torn file and main exits), the RTMR3 comparison, which only warns, and
\* the personality; without one, firstBoot up to its TEE calls
BootChecked ==
    /\ Agent.pc = "boot"
    /\ agentProc' = [agentProc EXCEPT !.agent =
           IF @.disk = NoFile
           THEN [@ EXCEPT !.pc = "firstBoot",
                          !.generated = @ + 1,
                          !.keypair = GeneratedKey(Agent.generated + 1)]
           ELSE IF @.disk = TornFile THEN [@ EXCEPT !.pc = "failed"]
           ELSE LET l == Loaded(@.disk)
                IN SealPersonality([@ EXCEPT !.keypair = l.keypair,
                                             !.birthCert = l.birthCert,
                                             !.personalityConfig = l.personalityConfig])]
    /\ UNCHANGED <<coordVars, sse>>

\* firstBoot from the TEE's answers on: a failure is rethrown and main
\* exits; else the certificate is built and signed, up to persistState
FirstBootDone(ok) ==
    /\ Agent.pc = "firstBoot"
    /\ agentProc' = [agentProc EXCEPT !.agent =
           IF ~ok THEN [@ EXCEPT !.pc = "failed"]
           ELSE [@ EXCEPT !.birthCert = HonestCert(Agent.keypair, TRUE, Agent.rtmr3),
                          !.pc = "persist"]]
    /\ UNCHANGED <<coordVars, sse>>

\* firstBoot's persistState has written; boot() goes on to the personality
Persisted ==
    /\ Agent.pc = "persist"
    /\ agentProc' = [agentProc EXCEPT !.agent = SealPersonality(PersistState(@))]
    /\ UNCHANGED <<coordVars, sse>>

\* boot()'s own persistState has written
Sealed ==
    /\ Agent.pc = "seal"
    /\ agentProc' = [agentProc EXCEPT !.agent = [PersistState(@) EXCEPT !.pc = "booted"]]
    /\ UNCHANGED <<coordVars, sse>>

\* the process is killed; `torn` says it was inside writeFileSync, which
\* truncates the file before it writes
Kill(torn) ==
    /\ Agent.pc \in {"boot", "firstBoot", "persist", "seal", "booted"}
    /\ torn => Agent.pc \in {"persist", "seal"}
    /\ agentProc' = [agentProc EXCEPT !.agent =
           [@ EXCEPT !.pc = "down", !.disk = IF torn THEN TornFile ELSE @]]
    /\ UNCHANGED <<coordVars, sse>>

AgentLife ==
    \/ \E r \in Rtmr3s : Start(r)
    \/ BootChecked
    \/ \E ok \in BOOLEAN : FirstBootDone(ok)
    \/ Persisted
    \/ Sealed
    \/ \E torn \in BOOLEAN : Kill(torn)

(***************************************************************************)
(* agent: main (index.ts) and registerWithDashboard (registration.ts)      *)
(***************************************************************************)
maxRetries == 5

\* what POST /api/register comes back with: a 2xx, the registry's 400, a
\* 500, or no answer
RegisterAnswers == {"200", "400", "500", "unreachable"}

Main == agentProc.main

\* a loop without its `break`: main sleeps and tries again after a success
RegisterAnsweredNoBreak(answer) ==
    /\ Main.pc = "registering"
    /\ agentProc' = [agentProc EXCEPT !.main =
           IF answer = "200"
           THEN [@ EXCEPT !.pc = "sleeping", !.registered = TRUE,
                          !.lastStatus = answer]
           ELSE [@ EXCEPT !.pc = "sleeping", !.lastStatus = answer]]
    /\ UNCHANGED <<coordVars, sse>>

\* registerWithDashboard answered: res.ok is success, which leaves the
\* loop and starts the monitor and the chat listener ("Ready for games");
\* anything else is success: false, and main sleeps 5 s
RegisterAnswered(answer) ==
    /\ Main.pc = "registering"
    /\ agentProc' = [agentProc EXCEPT !.main =
           IF answer = "200"
           THEN [@ EXCEPT !.pc = "running", !.registered = TRUE,
                          !.lastStatus = answer]
           ELSE [@ EXCEPT !.pc = "sleeping", !.lastStatus = answer]]
    /\ UNCHANGED <<coordVars, sse>>

\* the 5 s are over: i++, and either the next attempt is sent or the loop
\* is left and main goes on to steps 4 and 5
RetryTimerFired ==
    /\ Main.pc = "sleeping"
    /\ agentProc' = [agentProc EXCEPT !.main =
           IF @.i + 1 < maxRetries
           THEN [@ EXCEPT !.pc = "registering", !.i = @ + 1, !.sent = @ + 1]
           ELSE [@ EXCEPT !.pc = "running", !.i = @ + 1]]
    /\ UNCHANGED <<coordVars, sse>>

AgentMain ==
    \/ \E answer \in RegisterAnswers : RegisterAnswered(answer)
    \/ RetryTimerFired

\* the games the Coordinator runs between this agent and the opponent w2:
\* loser commands naming w2, whose /collect declares its own wallet
OpponentCommands == {[sender |-> "coordinator", role |-> "loser", opponentWallet |-> "w2"]}
OpponentAnswers ==
    {[status |-> "unreachable", address |-> "-"],
     [status |-> "402", address |-> OpponentWallet]}

\* the whole Coordinator, its treasury able to fund every agent
Next == Register(MatchPayloads, {TRUE}) \/ MatchLoop \/ Donations({"alice"})

Spec == Init /\ [][Next]_vars

\* the registry alone, under every payload of Payloads, funding failing or not
NextRegistry == Register(Payloads, BOOLEAN)

SpecRegistry == InitRegistry /\ [][NextRegistry]_vars

\* the registry and the agents' POSTs, without the match loop
NextPosts == Register(MatchPayloads, {TRUE}) \/ AgentPosts

SpecPosts == Init /\ [][NextPosts]_vars

\* one agent's /play endpoint, open to the Coordinator and to anyone else
NextAgent == AgentPlay

SpecAgent == Init /\ [][NextAgent]_vars

\* an agent from its first registration attempt on, its server listening
NextAgentMain == AgentMain \/ Play(OpponentCommands, OpponentAnswers)

SpecAgentMain == Init /\ [][NextAgentMain]_vars

\* the same agent, every fetch of main settling (undici's connect and
\* headers timeouts end a request that gets no answer) and every timer firing
SpecAgentMainFair == SpecAgentMain /\ WF_vars(AgentMain)

\* a loser agent paying the opponent w2, donors, and w2's donation monitor
NextWatcher == Play(OpponentCommands, OpponentAnswers) \/ Donate \/ DonationMonitor

SpecWatcher == Init /\ [][NextWatcher]_vars

\* donors and the opponent's donation monitor, its polls overlapping
NextMonitor == DonateUpTo(MaxHistory) \/ DonationMonitorOver(PollSlots)

SpecMonitor == InitMonitor /\ [][NextMonitor]_vars

\* one agent's volume over the starts and kills of its process
NextBoot == AgentLife

SpecBoot == InitBoot /\ [][NextBoot]_vars

\* the registry, donations and the event stream's clients
NextEvents == Register(MatchPayloads, {TRUE}) \/ Donations({"alice"}) \/ SseClients

SpecEvents == InitEvents /\ [][NextEvents]_vars

\* the whole Coordinator with agents whose names collide
NextNames == Register(SameNamePayloads, {TRUE}) \/ MatchLoop

SpecNames == Init /\ [][NextNames]_vars

\* the registry under certificates with several defects at once
NextVerifier == Register(DefectPayloads, BOOLEAN)

SpecVerifier == InitRegistry /\ [][NextVerifier]_vars

\* the registry, the match loop and a client of the event stream
NextMatchEvents ==
    Register(MatchPayloads, {TRUE}) \/ MatchLoop \/ Connect(1) \/ Close(1)

SpecMatchEvents == Init /\ [][NextMatchEvents]_vars

\* registrations and the match loop, long enough for an agent to go broke
\* and for the timer to fire again afterwards
NextStakes == Register(MatchPayloads, {TRUE}) \/ MatchLoopUpTo(MaxMatches)

SpecStakes == Init /\ [][NextStakes]_vars

\* two agents registering
TickerPayloads ==
    {HonestPayload(w, TRUE, "r1", PublicEndpoint(w)) : w \in {"w1", "w2"}}

\* the match loop among agents that are up: both probes answer and the
\* winner answers its /play; the loser's /play may still fail
Ticker ==
    \/ \E t \in TickSlots, i, j \in 1..Cardinality(Wallets) : TimerFire(t, i, j)
    \/ \E t \in TickSlots, coinFlip \in BOOLEAN : PingsDone(t, TRUE, TRUE, coinFlip)
    \/ \E t \in TickSlots : WinnerDone(t, TRUE)
    \/ \E t \in TickSlots, response \in PlayAnswers : LoserDone(t, response)

NextTicker ==
    \/ Register(TickerPayloads, {TRUE})
    \/ Ticker
    \/ \E o \in 1..Len(heap), exists \in VmAnswers : VmCheckDone(o, exists)
    \/ SweepOfflineAgents

\* setInterval keeps firing the callback, and every await of the callback
\* settles: an agent answers, or the request's abort timer ends it
SpecTicker == Init /\ [][NextTicker]_vars /\ WF_vars(Ticker)

(***************************************************************************)
(* Properties                                                              *)
(***************************************************************************)
\* the objects the pool holds
PoolObjs == {o \in 1..Len(heap) : InPool(o)}

ActiveCount == Cardinality({o \in PoolObjs : heap[o].status = "active"})

\* the fields runGame writes when it records a match
Stats(h, o) == <<h[o].balance, h[o].wins, h[o].losses, h[o].currentStreak,
                 h[o].longestStreak>>

Logged(g) == \E k \in 1..Len(games) : games[k].gameId = g

GameResultSent(events, g) ==
    \E k \in 1..Len(events) :
        events[k].type = "game_result" /\ events[k].gameId = g

\* ---- C1 ----------------------------------------------------------------
\* the step in which tick t's runGame returns because the winner's /play failed
AbortStep(t) == ticks[t].pc = "winner" /\ ticks'[t].pc = "idle"

\* a game whose winner dispatch failed never has a /play sent to its loser,
\* never enters the game log and never has a game_result broadcast
C1_Aborted ==
    \A g \in GameIds : plays[g].winner = "failed" =>
        /\ plays[g].loser = "none"
        /\ ~Logged(g)
        /\ ~GameResultSent(bcast, g)

\* the aborting step leaves the log and every agent's stats as they were,
\* broadcasts no game_result and leaves the winner's pool entry offline
C1_AbortStep ==
    \A t \in TickSlots : AbortStep(t) =>
        /\ games' = games
        /\ \A o \in 1..Len(heap) : Stats(heap', o) = Stats(heap, o)
        /\ \A k \in 1..Len(bcast') : bcast'[k].type # "game_result"
        /\ heap'[PoolGet(heap[ticks[t].winner].walletAddress)].status = "offline"
        /\ plays'[ticks[t].gameId] = [winner |-> "failed", loser |-> "none"]

\* C1: when the dispatch of /play to the coin-flip winner fails, runGame
\* aborts: nothing is sent to the loser, no game is logged, no stats change,
\* no game_result is broadcast, and the winner is marked offline.
C1_WinnerFailureAborts == [](C1_Aborted) /\ [][C1_AbortStep]_vars

\* an aborted game, followed by a game that was recorded
C1_Witness ==
    \E g \in GameIds :
        /\ plays[g] = [winner |-> "failed", loser |-> "none"]
        /\ Len(games) = 1

\* ---- C2 ----------------------------------------------------------------
\* the step in which the loser's /play of tick t's game is found failed
LoserFailStep(t) ==
    ticks[t].pc = "loser" /\ plays'[ticks[t].gameId].loser = "failed"

C2_LoserFailStep ==
    \A t \in TickSlots : LoserFailStep(t) =>
        LET winner == ticks[t].winner
            loser == ticks[t].loser
            g == ticks[t].gameId
        IN /\ Len(games') = Len(games) + 1
           /\ games'[Len(games')].gameId = g
           /\ games'[Len(games')].winner = heap[winner].agentName
           /\ games'[Len(games')].loser = heap[loser].agentName
           /\ heap'[winner].wins = heap[winner].wins + 1
           /\ heap'[winner].balance = heap[winner].balance + GAME_STAKE
           /\ heap'[PoolGet(heap[loser].walletAddress)].status = "offline"
           /\ GameResultSent(bcast', g)

\* C2: when the winner's /play succeeded and the loser's fails, the match
\* is still recorded, the winner is credited one win and GAME_STAKE, and
\* when runGame returns (after its reRank) the loser is offline, not
\* active, benched or broke.
C2_LoserFailureStillRecords == [][C2_LoserFailStep]_vars

\* a logged game whose loser dispatch failed, the loser's pool entry offline
C2_Witness ==
    \E k \in 1..Len(games) :
        /\ plays[games[k].gameId] = [winner |-> "acked", loser |-> "failed"]
        /\ heap[PoolGet(games[k].loserWallet)].status = "offline"
        /\ heap[PoolGet(games[k].winnerWallet)].wins >= 1

\* ---- C3 ----------------------------------------------------------------
C3_Order ==
    \A g \in GameIds :
        /\ plays[g].loser # "none" => plays[g].winner = "acked"
        /\ Logged(g) => /\ plays[g].winner = "acked"
                        /\ plays[g].loser \in {"acked", "failed"}

\* a step that settles the loser dispatch of some tick's game
LoserSettles ==
    \E t \in TickSlots :
        /\ ticks[t].pc = "loser"
        /\ ticks'[t].pc = "idle"
        /\ plays[ticks[t].gameId] = [winner |-> "acked", loser |-> "sent"]
        /\ plays'[ticks[t].gameId].loser \in {"acked", "failed"}

C3_MutationsLast ==
    (\/ games' # games
     \/ \E o \in 1..Len(heap) : Stats(heap', o) # Stats(heap, o)
     \/ \E k \in 1..Len(bcast') : bcast'[k].type = "game_result")
    => LoserSettles

\* C3: within a match the winner's /play is dispatched and answered before
\* the loser's /play is dispatched, and the game log, the agents' stats and
\* the game_result broadcast are written only once both dispatches are over.
C3_WinnerBeforeLoserBeforeRecord == [](C3_Order) /\ [][C3_MutationsLast]_vars

\* one game recorded after both agents answered, one after the loser failed
C3_Witness ==
    /\ \E g \in GameIds : Logged(g) /\ plays[g].loser = "acked"
    /\ \E g \in GameIds : Logged(g) /\ plays[g].loser = "failed"

C5_ActiveNeverExceedsMax == ActiveCount <= MAX_ACTIVE_AGENTS

\* a step that runs BattlePool.reRank: the start of a tick, the end of a
\* recorded match
ReRankStep ==
    \/ \E t \in TickSlots, i, j \in 1..Cardinality(Wallets) : TimerFire(t, i, j)
    \/ \E t \in TickSlots, response \in PlayAnswers : LoserDone(t, response)

\* C5 (amended): right after every reRank (at the start of each tick, where
\* the pair is picked, and at the end of each recorded match) at most
\* MAX_ACTIVE_AGENTS agents of the pool are active.
C5_ActiveWithinMaxAfterReRank ==
    [][ReRankStep => ActiveCount' <= MAX_ACTIVE_AGENTS]_vars

\* reRank has benched an agent and left MAX_ACTIVE_AGENTS active
C5_Witness ==
    /\ ActiveCount = MAX_ACTIVE_AGENTS
    /\ \E o \in PoolObjs : heap[o].status = "benched"

\* ---- C6 ----------------------------------------------------------------
\* C6: every active agent of the pool has a balance of at least
\* MIN_BALANCE_TO_PLAY; an agent whose balance drops below it has left the
\* active set by the end of the step that debited it.
C6_ActiveCanPay ==
    \A o \in PoolObjs :
        heap[o].status = "active" => heap[o].balance >= MIN_BALANCE_TO_PLAY

\* an agent that lost its balance is broke while another one is active
C6_Witness ==
    /\ \E o \in PoolObjs : /\ heap[o].status = "broke"
                           /\ heap[o].balance < MIN_BALANCE_TO_PLAY
    /\ \E o \in PoolObjs : heap[o].status = "active"

\* ---- C7 ----------------------------------------------------------------
AgentsOf(w) == {o \in 1..Len(heap) : heap[o].walletAddress = w}

\* C7: of the registrations naming one wallet, concurrent or not, at most
\* one is admitted, and the record the pool holds for a wallet is never
\* replaced.
C7_OneAdmissionPerWallet ==
    /\ [](\A w \in Wallets : Cardinality(AgentsOf(w)) <= 1)
    /\ [][\A w \in Wallets : poolObj[w] # NoObj => poolObj'[w] = poolObj[w]]_vars

\* ---- C8 ----------------------------------------------------------------
\* C8: FundedWallets only grows, and fundAgent is called at most once per
\* recipient wallet.
C8_FundedOnceAndMonotone ==
    /\ [](\A w \in Wallets : fundCalls[w] <= 1)
    /\ [][fundedWallets \subseteq fundedWallets']_vars

\* ---- C9 ----------------------------------------------------------------
FailureReply(r) == r.to = "register" /\ ~r.success

\* C9: a registration answered with success:false (attestation, wallet
\* signature, registration signature or duplicate check failed) leaves the
\* pool, its agents and FundedWallets unchanged, attempted no funding and
\* broadcast nothing.
C9_FailedRegistrationChangesNothing ==
    [][FailureReply(reply') =>
          /\ UNCHANGED <<heap, poolOrder, poolObj, fundedWallets, fundCalls, games>>
          /\ bcast' = <<>>
          /\ reqs[reply'.slot].pc = "verify"
          /\ reqs'[reply'.slot] = IdleReq]_vars

\* a duplicate registration was just refused while the pool holds an agent
C9_Witness ==
    /\ FailureReply(reply)
    /\ reply.message = <<"Agent already registered">>
    /\ PoolObjs # {}

\* ---- C10 ---------------------------------------------------------------
C10_Admitted ==
    \A o \in PoolObjs :
        LET cert == heap[o].birthCert
            w == cert.walletAddress
        IN /\ \E pccsUp \in BOOLEAN :
                 verifyBirthCertAttestation(cert, rtmr3Allowlist, pccsUp).verified
           /\ verifySignature(birthCertMessage(cert), cert.walletSignature, w)
           /\ verifySignature(regMessage(w, heap[o].sent.endpoint),
                              heap[o].sent.signature, w)

C10_AdmitStep ==
    (reply'.to = "register" /\ reply'.success) =>
        /\ reply'.verification.verified
        /\ Len(heap') = Len(heap) + 1
        /\ poolObj'[heap'[Len(heap')].walletAddress] = Len(heap')

\* C10: every agent of the pool was admitted by a registerAgent call in
\* which the verifier answered verified for its birth certificate under the
\* allowlist, the certificate's wallet signature verified, and the
\* registration signature verified over the endpoint the agent sent.
C10_PoolAgentsAreVerified == [](C10_Admitted) /\ [][C10_AdmitStep]_vars

\* a hardware-attested agent whose localhost endpoint the registry replaced
C10_Witness ==
    \E o \in PoolObjs :
        /\ ~heap[o].birthCert.attestationQuote.mock
        /\ heap[o].endpoint # heap[o].sent.endpoint

\* ---- C11 ---------------------------------------------------------------
\* the certificates the verifier has answered verified for: those of the
\* agents created and of the registrations waiting for fundAgent
AcceptedCerts ==
    {heap[o].birthCert : o \in 1..Len(heap)}
    \cup {reqs[s].payload.birthCert : s \in {u \in ReqSlots : reqs[u].pc = "fund"}}

\* C11 as the spec states it: every certificate the verifier accepts, on
\* the mock path or the hardware path, carries a quote whose report_data
\* is the certificate's teePubkey.
C11_QuoteBindsTeeKey ==
    \A cert \in AcceptedCerts : cert.attestationQuote.report_data = cert.teePubkey

\* C11 (amended): every certificate accepted on the hardware path carries
\* a quote whose report_data is the certificate's teePubkey; on the mock
\* path the verifier only requires the teeSignature to verify under the
\* teePubkey the certificate claims.
C11_HardwareQuoteBindsTeeKey ==
    \A cert \in AcceptedCerts :
        /\ ~cert.attestationQuote.mock =>
              cert.attestationQuote.report_data = cert.teePubkey
        /\ cert.attestationQuote.mock =>
              verifyTeeSignature(birthCertMessage(cert), cert.teeSignature,
                                 cert.teePubkey)

\* the verifier has accepted a hardware certificate and a mock certificate
\* whose quote names another key
C11_Witness ==
    /\ \E cert \in AcceptedCerts : ~cert.attestationQuote.mock
    /\ \E cert \in AcceptedCerts :
          /\ cert.attestationQuote.mock
          /\ cert.attestationQuote.report_data # cert.teePubkey

\* ---- C12 ---------------------------------------------------------------
C12_AcceptedInAllowlist ==
    rtmr3Allowlist # {} =>
        \A cert \in AcceptedCerts : cert.rtmr3 \in rtmr3Allowlist

\* the verifier's answer arrives for a certificate whose rtmr3 is outside
\* a non-empty allowlist
C12_Refused ==
    \A s \in ReqSlots :
        LET cert == reqs[s].payload.birthCert IN
        (/\ reqs[s].pc = "verify"
         /\ reqs'[s].pc # "verify"
         /\ rtmr3Allowlist # {}
         /\ cert.rtmr3 \notin rtmr3Allowlist)
        => /\ FailureReply(reply')
           /\ reply'.slot = s
           /\ UNCHANGED <<heap, poolOrder, poolObj, fundedWallets, fundCalls>>
           /\ bcast' = <<>>
           /\ (\A pccsUp \in BOOLEAN :
                  verifyBirthCertAttestation(cert, {}, pccsUp).verified)
              => reply'.message = <<"TEE attestation failed", "not in allowlist">>

HardwareAccepted == {cert \in AcceptedCerts : ~cert.attestationQuote.mock}

\* the verifier's answer for slot s is `verified` and registerAgent goes on
VerifiedStep(s) ==
    /\ reqs[s].pc = "verify"
    /\ \/ reqs'[s].pc = "fund"
       \/ (reply'.to = "register" /\ reply'.success /\ reply'.slot = s)

\* C13: with no configured allowlist and hardware-attested agents, the
\* first successful verification adds its rtmr3 to the allowlist and later
\* registrations with another rtmr3 are refused, so all agents admitted
\* that way share one rtmr3.
C13_TofuLocksFirstRtmr3 ==
    /\ [](Cardinality(rtmr3Allowlist) <= 1 =>
            \A c1, c2 \in HardwareAccepted : c1.rtmr3 = c2.rtmr3)
    /\ [][\A s \in ReqSlots :
            (/\ VerifiedStep(s)
             /\ rtmr3Allowlist = {}
             /\ ~reqs[s].payload.birthCert.attestationQuote.mock)
            => rtmr3Allowlist' = {reqs[s].payload.birthCert.rtmr3}]_vars

\* ---- C14 ---------------------------------------------------------------
\* C14: the step that records a match changes the balance of exactly two
\* agents, the recorded winner by +GAME_STAKE and the recorded loser by
\* -GAME_STAKE; every other balance, and every balance in a step that
\* records nothing, stays as it was.
C14_BalanceConservation ==
    [][IF Len(games') = Len(games) + 1
       THEN \E w, l \in 1..Len(heap) :
               /\ w # l
               /\ heap[w].walletAddress = games'[Len(games')].winnerWallet
               /\ heap[l].walletAddress = games'[Len(games')].loserWallet
               /\ heap'[w].balance = heap[w].balance + GAME_STAKE
               /\ heap'[l].balance = heap[l].balance - GAME_STAKE
               /\ \A o \in 1..Len(heap) \ {w, l} : heap'[o].balance = heap[o].balance
       ELSE /\ games' = games
            /\ \A o \in 1..Len(heap) : heap'[o].balance = heap[o].balance]_vars

\* after one recorded match between two of three agents: one agent up by
\* the stake, one down by it, the third untouched
C14_Witness ==
    /\ Len(games) = 1
    /\ Len(heap) = 3
    /\ \E w, l, o \in 1..Len(heap) :
          /\ heap[w].balance = StartBalance + GAME_STAKE
          /\ heap[l].balance = StartBalance - GAME_STAKE
          /\ heap[o].balance = StartBalance

\* ---- C15 ---------------------------------------------------------------
C15_Log ==
    \A k \in 1..Len(games) :
        /\ games[k].winner # games[k].loser
        /\ games[k].winnerWallet # games[k].loserWallet
        /\ games[k].stakeAmount = GAME_STAKE
        /\ PoolGet(games[k].winnerWallet) # NoObj
        /\ PoolGet(games[k].loserWallet) # NoObj

\* the pair a tick picks: two agents of the pool, active after the tick's
\* reRank; no pair when fewer than two are active
C15_Pick ==
    /\ \A t \in TickSlots :
          (ticks[t].pc = "idle" /\ ticks'[t].pc = "ping") =>
             /\ ticks'[t].a # ticks'[t].b
             /\ \A o \in {ticks'[t].a, ticks'[t].b} :
                   /\ poolObj'[heap'[o].walletAddress] = o
                   /\ heap'[o].status = "active"
    /\ ((\E t \in TickSlots, i, j \in 1..Cardinality(Wallets) : TimerFire(t, i, j))
        /\ ActiveCount' < 2)
       => (InFlight' = InFlight /\ games' = games)

\* a recorded game is between the two agents its tick picked
C15_Recorded ==
    \A t \in TickSlots :
        (ticks[t].pc = "loser" /\ Len(games') = Len(games) + 1) =>
            {games'[Len(games')].winnerWallet, games'[Len(games')].loserWallet}
               = {heap[ticks[t].a].walletAddress, heap[ticks[t].b].walletAddress}

\* C15: every GameResult of the log has winner # loser and
\* winnerWallet # loserWallet, stakeAmount = GAME_STAKE, and its two
\* wallets were keys of the pool with status active when the pair was
\* picked; a tick that finds fewer than two active agents picks no pair and
\* records nothing.
C15_GameResultWellFormed ==
    [](C15_Log) /\ [][C15_Pick /\ C15_Recorded]_vars

\* ---- C16 ---------------------------------------------------------------
Gone == {"offline", "deleted"}

\* C16: an agent whose status is offline or deleted keeps a status of
\* offline or deleted through every step of the Coordinator (reRank, tick,
\* runGame, sweep, VM check, donation); the pool entry of its wallet changes
\* status only if a registration replaces the record.
C16_GoneStaysGone ==
    [][/\ \A o \in 1..Len(heap) :
             heap[o].status \in Gone => heap'[o].status \in Gone
       /\ \A w \in Wallets :
             (/\ PoolGet(w) # NoObj
              /\ heap[PoolGet(w)].status \in Gone
              /\ poolObj'[w] = poolObj[w])
             => heap'[poolObj'[w]].status \in Gone]_vars

\* a tick has just re-ranked and picked a pair while the pool holds a
\* deleted agent, after a match was recorded
C16_Witness ==
    /\ \E t \in TickSlots : ticks[t].pc = "ping"
    /\ \E o \in PoolObjs : heap[o].status = "deleted"
    /\ Len(games) = 1

\* ---- C17 ---------------------------------------------------------------
\* the step in which tick t's two probes have settled and one has failed
ProbeFailStep(t) ==
    /\ ticks[t].pc = "ping"
    /\ ticks'[t].pc # "ping"
    /\ bcast' # <<>>

\* the pool entries of the wallets of the agents evicted in this step
EvictedEntries ==
    {PoolGet(heap[bcast'[k].agent].walletAddress) : k \in 1..Len(bcast')}

C17_ProbeFailStep ==
    \A t \in TickSlots : ProbeFailStep(t) =>
        /\ ticks'[t] = IdleTick
        /\ \A k \in 1..Len(bcast') :
              /\ bcast'[k].type = "agent_evicted"
              /\ bcast'[k].agent \in {ticks[t].a, ticks[t].b}
        /\ \A o \in EvictedEntries : heap'[o].status = "offline"
        /\ \A o \in 1..Len(heap) \ EvictedEntries : heap'[o] = heap[o]
        /\ \A o \in 1..Len(heap) : Stats(heap', o) = Stats(heap, o)
        /\ UNCHANGED <<games, plays, nextGame>>

\* a tick leaves its probes silently only to start the game
C17_ProbeOkStep ==
    \A t \in TickSlots :
        (ticks[t].pc = "ping" /\ ticks'[t].pc # "ping" /\ bcast' = <<>>) =>
            /\ ticks'[t].pc = "winner"
            /\ heap' = heap

\* C17: when the /health probe of a picked agent fails, every agent whose
\* probe failed is marked offline with an agent_evicted broadcast, and the
\* tick ends there: no /play is dispatched, no GameResult is recorded and
\* no balance, win or loss counter changes.
C17_ProbeFailureSkipsTick == [][C17_ProbeFailStep /\ C17_ProbeOkStep]_vars

\* both probes of a tick have just failed, after a match was recorded
C17_Witness ==
    /\ Len(bcast) = 2
    /\ \A k \in 1..Len(bcast) : bcast[k].type = "agent_evicted"
    /\ Len(games) = 1
    /\ \A g \in GameIds : plays[g].winner # "sent"

\* ---- C18 ---------------------------------------------------------------
\* request c enters the fallback directTransfer(opponentWallet) in this step
FallbackStarts(c) ==
    /\ Cmd(c).path = "x402"
    /\ Cmd(c)'.path = "fallback"

\* C18: the loser's fallback transfer to opponentWallet is performed only
\* when the x402 handshake itself fails (GET /collect unreachable, a status
\* other than 402, unparseable requirements); once the handshake succeeded,
\* a failure of the x402-path transfer starts no fallback transfer.
C18_FallbackOnlyOnHandshakeFailure ==
    [][\A c \in CmdSlots : FallbackStarts(c) => Cmd(c).pc = "collect"]_vars

\* ---- C19 ---------------------------------------------------------------
\* the step in which request c's follow-up GET /collect is answered: the
\* handler answers 200 paid with the signature of the transfer already made
\* and is finished, so that nothing more is sent for this /play
C19_RetryStep ==
    \A c \in CmdSlots :
        (Cmd(c).pc = "retry" /\ Cmd(c)'.pc # "retry") =>
            /\ Cmd(c)'.pc = "idle"
            /\ Cmd(c)'.response = [status |-> 200, body |-> "paid",
                                   txSignature |-> Cmd(c).txSignature]
            /\ Cmd(c)'.transfers = Cmd(c).transfers
            /\ agentProc'.chain = agentProc.chain

\* C19: once the x402-path transfer has completed, a failure of the
\* follow-up GET /collect carrying X-Payment (a status that is not 2xx, or
\* a network error) is advisory: payWinner returns the first transfer's
\* signature and no second transfer is sent, so the loser sends at most one
\* stake transfer per /play command.
C19_RetryIsAdvisory == [][C19_RetryStep]_vars

\* ---- C20 ---------------------------------------------------------------
\* C20: POST /play is Coordinator-authenticated: the agent sends a stake
\* transfer only in response to a loser GameCommand the Coordinator issued;
\* a /play request from any other sender causes no transfer.
C20_TransfersOnlyForCoordinator ==
    \A k \in 1..Len(agentProc.chain) :
        /\ agentProc.chain[k].command.sender = "coordinator"
        /\ agentProc.chain[k].command.role = "loser"

\* ---- C21 ---------------------------------------------------------------
\* the transactions a /play command paid with
GamePayments ==
    {agentProc.chain[k].txSignature : k \in {j \in 1..Len(agentProc.chain) :
                                                agentProc.chain[j].play > 0}}

\* C21: a game-payment transaction is never reported as a donation: under
\* every interleaving of the loser's transfer, the loser's X-Payment
\* acknowledgement to the winner's /collect and the winner's donation poll,
\* the fallback path included, the watcher posts donation-confirmed only
\* for transfers that are not game payments.
C21_GamePaymentNeverReported ==
    \A i \in 1..Len(Opponent.reported) :
        Opponent.reported[i].txSignature \notin GamePayments

\* ---- C22 ---------------------------------------------------------------
\* C22: the agent enters normal operation (donation monitor, chat listener,
\* "Ready for games") only after a registration attempt returned a 2xx
\* response; if no attempt succeeds it does not enter running.
C22_RunningOnlyIfRegistered ==
    Main.pc = "running" => Main.registered

\* ---- C23 ---------------------------------------------------------------
\* the frames of a client after its connected frame
EventFrames(k) == SubSeq(sse.clients[k].frames, 2, Len(sse.clients[k].frames))

\* C23: a client of GET /api/events is written the connected frame, then
\* the recent events broadcast before it connected, then the live events:
\* while it is connected it has been written every event broadcast so far
\* (the run being shorter than the buffer's 15 minutes), in order.
C23_BacklogReplayed ==
    \A k \in SseSlots : sse.clients[k].connected =>
        /\ Head(sse.clients[k].frames) = [type |-> "connected"]
        /\ EventFrames(k) = sse.history

\* ---- C24 ---------------------------------------------------------------
\* payload p carries a certificate the verifier accepts and both of its
\* signatures verify
ValidRegistration(p) ==
    /\ \A pccsUp \in BOOLEAN :
          verifyBirthCertAttestation(p.birthCert, rtmr3Allowlist, pccsUp).verified
    /\ RegChecks(p) \in {"ok", "Agent already registered"}

\* request s, a valid registration of a wallet FundedWallets holds, is
\* decided in this step
ReRegistrationStep(s) ==
    /\ reqs[s].pc = "verify"
    /\ reqs'[s].pc # "verify"
    /\ ValidRegistration(reqs[s].payload)
    /\ reqs[s].payload.birthCert.walletAddress \in fundedWallets

C24_Step(s) ==
    LET w == reqs[s].payload.birthCert.walletAddress
    IN /\ UNCHANGED <<fundCalls, fundedWallets>>
       /\ reqs'[s] = IdleReq
       /\ reply'.to = "register" /\ reply'.slot = s
       /\ \/ /\ reply'.success
             /\ PoolGet(w) = NoObj
             /\ heap' = Append(heap, heap'[Len(heap')])
             /\ heap'[Len(heap')].walletAddress = w
             /\ poolObj' = [poolObj EXCEPT ![w] = Len(heap')]
          \/ /\ ~reply'.success
             /\ reply'.message = <<"Agent already registered">>
             /\ UNCHANGED <<heap, poolOrder, poolObj, games>>
             /\ bcast' = <<>>

\* C24: re-registration of a wallet that is already in FundedWallets with
\* a valid certificate is idempotent: it triggers no funding transfer, and
\* it either admits the agent (the wallet not being in the pool) or is
\* rejected as a duplicate, leaving pool, stats and FundedWallets unchanged.
C24_ReRegistrationIdempotent ==
    [][\A s \in ReqSlots : ReRegistrationStep(s) => C24_Step(s)]_vars

\* the registration of a funded wallet was just refused as a duplicate,
\* the wallet funded once
C24_Witness ==
    /\ FailureReply(reply)
    /\ reply.message = <<"Agent already registered">>
    /\ \E w \in fundedWallets : fundCalls[w] = 1 /\ PoolGet(w) # NoObj
    /\ Cardinality(fundedWallets) = 1
    /\ Len(heap) = 1
    /\ \A s \in ReqSlots : reqs[s].pc = "idle"

\* ---- C25 ---------------------------------------------------------------
\* request s is the valid registration of a funded wallet whose agent has
\* gone offline (or was found deleted), decided in this step
RestartedStep(s) ==
    /\ ReRegistrationStep(s)
    /\ PoolGet(reqs[s].payload.birthCert.walletAddress) # NoObj
    /\ heap[PoolGet(reqs[s].payload.birthCert.walletAddress)].status \in Gone

\* C25: an agent that re-registers with a wallet FundedWallets already
\* knows, for example after having gone offline and restarted, is admitted
\* to the pool without a new funding transfer.
C25_RestartedAgentAdmitted ==
    [][\A s \in ReqSlots : RestartedStep(s) =>
          /\ reply'.to = "register" /\ reply'.success
          /\ PoolGet(reqs[s].payload.birthCert.walletAddress)' = Len(heap')
          /\ fundCalls' = fundCalls]_vars

\* ---- C26 ---------------------------------------------------------------
\* C26: the match outcome is independent of game state: for the ordered
\* pair a tick picked and a random bit, the first agent wins on a set bit
\* and the second on a clear one, whatever the balances, wins, losses,
\* streaks and statuses of the agents are.
C26_OutcomeIndependentOfState ==
    [][\A t \in TickSlots, coinFlip \in BOOLEAN :
          PingsDone(t, TRUE, TRUE, coinFlip) =>
              /\ ticks'[t].winner = (IF coinFlip THEN ticks[t].a ELSE ticks[t].b)
              /\ ticks'[t].loser = (IF coinFlip THEN ticks[t].b ELSE ticks[t].a)]_vars

\* a game has started in which the second agent of the pair won the flip
\* though it is the poorer one and has lost before
C26_Witness ==
    \E t \in TickSlots :
        /\ ticks[t].pc = "winner"
        /\ ticks[t].winner = ticks[t].b
        /\ heap[ticks[t].winner].balance < heap[ticks[t].loser].balance
        /\ heap[ticks[t].winner].losses > 0

\* ---- C27 ---------------------------------------------------------------
\* the agents of the pool reRank looks at, and those of them that can pay
Eligible(h) == {o \in PoolObjs : h[o].status \notin Gone}
CanPay(h) == {o \in Eligible(h) : h[o].balance >= MIN_BALANCE_TO_PLAY}
ActiveOf(h) == {o \in CanPay(h) : h[o].status = "active"}

\* the statuses are those of a ranking by descending balance, however ties
\* are ordered: the broke are those that cannot pay, the active are
\* MAX_ACTIVE_AGENTS of the others (all, if fewer) and no benched agent is
\* richer than an active one
Ranked(h) ==
    /\ \A o \in Eligible(h) :
          h[o].status = "broke" <=> h[o].balance < MIN_BALANCE_TO_PLAY
    /\ \A o \in CanPay(h) : h[o].status \in {"active", "benched"}
    /\ Cardinality(ActiveOf(h)) =
          (IF Cardinality(CanPay(h)) < MAX_ACTIVE_AGENTS
           THEN Cardinality(CanPay(h)) ELSE MAX_ACTIVE_AGENTS)
    /\ \A a, b \in CanPay(h) :
          (h[a].status = "active" /\ h[b].status = "benched")
              => h[a].balance >= h[b].balance

\* C27: after reRank, among the agents that are not offline or deleted,
\* ordered by descending balance, an agent is active iff it can pay
\* MIN_BALANCE_TO_PLAY and ranks within the top MAX_ACTIVE_AGENTS, benched
\* iff it can pay and ranks below them, broke iff it cannot pay; offline
\* and deleted agents keep their status.
C27_ReRankPostcondition ==
    [][ReRankStep =>
          /\ Ranked(heap')
          /\ \A o \in 1..Len(heap) :
                heap[o].status \in Gone => heap'[o].status = heap[o].status]_vars

\* after a match the pool holds an active agent, a benched one that can pay
\* but is poorer, and all three agents are ranked
C27_Witness ==
    /\ Len(games) = 1
    /\ Cardinality(CanPay(heap)) = 3
    /\ \E a, b \in CanPay(heap) :
          /\ heap[a].status = "active"
          /\ heap[b].status = "benched"
          /\ heap[a].balance > heap[b].balance

\* ---- C28 ---------------------------------------------------------------
\* the step broadcast an event of type `type` about agent o
Surfaced(type, o) ==
    \E k \in 1..Len(bcast') :
        /\ "agent" \in DOMAIN bcast'[k]
        /\ bcast'[k].agent = o
        /\ bcast'[k].type = type

\* C28: every status transition a re-rank makes (at the start of a tick or
\* after a match) is broadcast, agent_joined for a promotion to active and
\* agent_evicted for a demotion to benched or broke; more generally every
\* lifecycle transition of an agent, offline to deleted included, is
\* surfaced as an SSE event.
C28_EveryTransitionBroadcast ==
    [][\A o \in 1..Len(heap) :
          heap'[o].status # heap[o].status =>
              Surfaced(IF heap'[o].status = "active" THEN "agent_joined"
                       ELSE "agent_evicted", o)]_vars

\* the rules of the path a certificate takes, in the order of section 4.3
RulesOf(cert) ==
    IF cert.attestationQuote.mock THEN <<"signature", "allowlist">>
    ELSE <<"parse", "pubkey", "signature", "rtmr3", "allowlist">>

\* whether the certificate fails one rule, taken by itself
RuleFails(rule, cert, allowlist, pccsUp) ==
    LET q == cert.attestationQuote
        parsed == ParsedQuoteOf(q, pccsUp)
        key == IF q.mock THEN cert.teePubkey ELSE parsed.report_data
    IN CASE rule = "parse" -> parsed.report_data = ""
         [] rule = "pubkey" -> parsed.report_data # cert.teePubkey
         [] rule = "signature" ->
              ~verifyTeeSignature(birthCertMessage(cert), cert.teeSignature, key)
         [] rule = "rtmr3" -> parsed.rtmr3 # "" /\ parsed.rtmr3 # cert.rtmr3
         [] rule = "allowlist" -> allowlist # {} /\ cert.rtmr3 \notin allowlist

RuleReason(rule, cert) ==
    CASE rule = "parse" -> "Pubkey extraction failed"
      [] rule = "pubkey" -> "TEE pubkey mismatch"
      [] rule = "signature" ->
           IF cert.attestationQuote.mock THEN "TEE signature invalid (mock)"
           ELSE "TEE signature on birth cert is invalid"
      [] rule = "rtmr3" -> "RTMR3 mismatch"
      [] rule = "allowlist" -> "not in allowlist"

FailedRules(cert, allowlist, pccsUp) ==
    {i \in DOMAIN RulesOf(cert) : RuleFails(RulesOf(cert)[i], cert, allowlist, pccsUp)}

EarliestOf(S) == CHOOSE i \in S : \A j \in S : i <= j

AttestationFailure(r) ==
    /\ r.to = "register"
    /\ ~r.success
    /\ Len(r.message) = 2
    /\ r.message[1] = "TEE attestation failed"

\* C29: the verifier reports the first failing rule of the order parse,
\* pubkey match, TEE signature, RTMR3 consistency, allowlist (mock path: TEE
\* signature, allowlist): when the registry gets the verifier's answer for a
\* certificate that fails some rules, the request is refused with the reason
\* of the earliest of them, and a certificate is accepted by the verifier
\* only if it fails none
C29_Step ==
    \A s \in ReqSlots, pccsUp \in BOOLEAN :
        RegVerified(s, pccsUp) =>
            LET cert == reqs[s].payload.birthCert
                failed == FailedRules(cert, rtmr3Allowlist, pccsUp)
            IN IF failed # {}
               THEN /\ AttestationFailure(reply')
                    /\ reply'.message[2] =
                         RuleReason(RulesOf(cert)[EarliestOf(failed)], cert)
               ELSE ~AttestationFailure(reply')

C29_FirstFailingRuleReported == [][C29_Step]_vars

\* a request refused for the pubkey mismatch while an allowlist is set: its
\* quote binds another key than the certificate claims, so the TEE signature
\* does not verify under that key either
C29_Witness ==
    /\ AttestationFailure(reply)
    /\ reply.message[2] = "TEE pubkey mismatch"
    /\ rtmr3Allowlist # {}

\* ---- C30 ---------------------------------------------------------------
\* the step in which tick t's runGame runs to its end
CompletedStep(t) == ticks[t].pc = "loser" /\ ticks'[t].pc = "idle"

\* the positions of the events of one type in a sequence of events
Positions(events, type) == {k \in 1..Len(events) : events[k].type = type}

\* what the step wrote to client k
WrittenTo(k) ==
    IF sse.keep
    THEN SubSeq(sse'.clients[k].frames, Len(sse.clients[k].frames) + 1,
                Len(sse'.clients[k].frames))
    ELSE sse'.clients[k].frames

\* the events of a completed match: one game_result, of that match, last;
\* every agent_evicted before every agent_joined; the agents the re-rank
\* benched and those it made active are among them
MatchEvents(t) ==
    /\ Positions(bcast', "game_result") = {Len(bcast')}
    /\ bcast'[Len(bcast')].gameId = ticks[t].gameId
    /\ \A i \in Positions(bcast', "agent_evicted"), j \in Positions(bcast', "agent_joined") :
          i < j
    /\ \A k \in 1..(Len(bcast') - 1) : bcast'[k].type \in {"agent_evicted", "agent_joined"}
    /\ \A o \in 1..Len(heap) :
          /\ heap[o].status = "active" /\ heap'[o].status \in {"benched", "broke"}
               => Surfaced("agent_evicted", o)
          /\ heap[o].status # "active" /\ heap'[o].status = "active"
               => Surfaced("agent_joined", o)

C30_Step ==
    /\ \A t \in TickSlots : CompletedStep(t) =>
          /\ Len(games') = Len(games) + 1
          /\ SubSeq(games', 1, Len(games)) = games
          /\ games'[Len(games')].gameId = ticks[t].gameId
          /\ MatchEvents(t)
          /\ \A k \in SseSlots : sse.clients[k].connected =>
                /\ sse'.clients[k].connected
                /\ WrittenTo(k) = bcast'
    /\ (\A t \in TickSlots : ~CompletedStep(t)) =>
          /\ games' = games
          \* (a step of a client leaves the Coordinator's last broadcasts as
          \* they were)
          /\ coordVars' # coordVars => Positions(bcast', "game_result") = {}

\* C30: a match that runs to its end appends one GameResult to the log and
\* broadcasts one game_result; every connected client is written the
\* match's events in the order of the broadcast calls, the agent_evicted
\* events, then the agent_joined events, then game_result; no other step
\* logs a result or broadcasts one, and no match is logged twice
C30_MatchEventsInOrder ==
    /\ [](\A i, j \in 1..Len(games) : games[i].gameId = games[j].gameId => i = j)
    /\ [][C30_Step]_vars

\* a connected client that was just written an eviction, a promotion and
\* the game's result, in that order
C30_Witness ==
    \E k \in SseSlots :
        /\ sse.clients[k].connected
        /\ Len(sse.clients[k].frames) = 3
        /\ sse.clients[k].frames[1].type = "agent_evicted"
        /\ sse.clients[k].frames[2].type = "agent_joined"
        /\ sse.clients[k].frames[3] = [type |-> "game_result", gameId |-> games[Len(games)].gameId]

\* ---- C31 ---------------------------------------------------------------
\* C31: the registration loop sends at most maxRetries requests, sends none
\* after the first successful one, and ends: main always gets past the loop
C31_RegistrationLoopBounded ==
    /\ [](Main.sent <= maxRetries)
    /\ [][Main.registered \/ Main.pc = "running" => Main'.sent = Main.sent]_vars
    /\ <>(Main.pc = "running")

\* the loop left by its break at the third attempt
C31_Witness ==
    /\ Main.pc = "running"
    /\ Main.registered
    /\ Main.sent = 3
    /\ Main.i = 2

\* ---- C32 ---------------------------------------------------------------
\* C32: a registration the registry rejected with 400 (attestation failure,
\* wallet signature failure, duplicate wallet) is not retried: once a
\* request came back with 400 the agent sends no further request (its
\* certificate is built once, at boot, and every request carries it)
C32_RejectionNotRetried ==
    [][Main.lastStatus = "400" => Main'.sent = Main.sent]_vars

\* ---- C33 ---------------------------------------------------------------
\* C33: when fundAgent fails for a registration with a hardware (non-mock)
\* attestation, the agent is still admitted, with balance zero; a starting
\* balance without funding is granted only to a mock registration
C33_Step ==
    \A s \in ReqSlots :
        RegFunded(s, FALSE) =>
            /\ Len(heap') = Len(heap) + 1
            /\ heap'[Len(heap')].walletAddress = reqs[s].payload.birthCert.walletAddress
            /\ heap'[Len(heap')].balance =
                 IF reqs[s].payload.birthCert.attestationQuote.mock
                 THEN StartBalance ELSE 0

C33_UnfundedAdmittedWithZeroBalance == [][C33_Step]_vars

Unknown(agentName) == \A o \in PoolObjs : heap[o].agentName # agentName

\* C35: POST /api/agent-message and POST /api/donation-confirmed naming an
\* agent that is not in the pool are answered 403: nothing is broadcast and
\* no agent's record changes
C35_Step ==
    \A n \in AgentNames :
        Unknown(n) =>
            /\ \A u \in {"normal", "desperate"} :
                  AgentMessage(n, u) =>
                      /\ reply'.status = 403
                      /\ bcast' = <<>>
                      /\ heap' = heap
            /\ \A amount \in {25} :
                  DonationConfirmed(n, amount) =>
                      /\ reply'.status = 403
                      /\ bcast' = <<>>
                      /\ heap' = heap

C35_UnknownAgentRejected == [][C35_Step]_vars

\* a donation post refused while the pool holds agents
C35_Witness ==
    /\ reply = [to |-> "donation-confirmed", status |-> 403]
    /\ PoolObjs # {}
    /\ bcast = <<>>

\* ---- C36 ---------------------------------------------------------------
\* the wallet and the certificate the agent runs with
Identity(a) == [walletAddress |-> a.keypair, birthCert |-> a.birthCert]

\* the step started firstBoot: a keypair was generated
GeneratesIdentity == Agent'.generated # Agent.generated

RECURSIVE Total(_, _, _)
Total(h, S, counter) ==
    IF S = {} THEN 0
    ELSE LET o == CHOOSE x \in S : TRUE
         IN h[o][counter] + Total(h, S \ {o}, counter)

\* C37: over the agents of the pool, the wins add up to the number of
\* GameResults in the log, and so do the losses; no agent's wins or losses
\* ever decrease
C37_WinsLossesMatchLog ==
    /\ [](/\ Total(heap, PoolObjs, "wins") = Len(games)
          /\ Total(heap, PoolObjs, "losses") = Len(games))
    /\ [][\A w \in Wallets : poolObj[w] # NoObj =>
            /\ poolObj'[w] # NoObj
            /\ heap'[poolObj'[w]].wins >= heap[poolObj[w]].wins
            /\ heap'[poolObj'[w]].losses >= heap[poolObj[w]].losses]_vars

\* ---- C38 ---------------------------------------------------------------
\* C38: no AgentInfo record's balance is ever negative, and a step that
\* lowers a balance takes exactly GAME_STAKE from a balance of at least
\* GAME_STAKE
C38_BalanceNeverNegative ==
    /\ [](\A o \in 1..Len(heap) : heap[o].balance >= 0)
    /\ [][\A o \in 1..Len(heap) : heap'[o].balance < heap[o].balance =>
            /\ heap[o].balance >= GAME_STAKE
            /\ heap'[o].balance = heap[o].balance - GAME_STAKE]_vars

\* an agent has lost its whole starting balance and is broke, and the timer
\* has fired again since: another game is under way between two others
C38_Witness ==
    /\ \E o \in PoolObjs : heap[o].balance = 0 /\ heap[o].status = "broke"
    /\ \E t \in TickSlots :
          /\ ticks[t].pc = "loser"
          /\ heap[ticks[t].loser].status = "active"

\* ---- C39 ---------------------------------------------------------------
\* C39: every stake transfer the loser makes for a GameCommand of the
\* Coordinator goes to the command's opponentWallet, the winner's wallet
\* as registered in the pool, on the x402 path as on the fallback path
C39_PaysRegisteredWallet ==
    \A k \in 1..Len(agentProc.chain) :
        (agentProc.chain[k].play > 0
            /\ agentProc.chain[k].command.sender = "coordinator") =>
            agentProc.chain[k].to = agentProc.chain[k].command.opponentWallet

\* ---- C40 ---------------------------------------------------------------
\* at least two agents of the pool are active and hold a stake
TwoPayable == Cardinality(ActiveOf(heap)) >= 2

\* the GameResults logged under gameId g
ResultsOf(g) == {k \in 1..Len(games) : games[k].gameId = g}

\* C40: with the ticker scheduled fairly and the picked agents answering
\* their probes and the winner its /play, two active agents holding a stake
\* lead to a further GameResult (as long as the loop runs); a tick that got
\* past the winner's dispatch comes to its end, and in doing so logs its
\* game, once
C40_GameEventuallyRecorded ==
    /\ \A n \in 0..(MaxGames - 1) :
          (TwoPayable /\ Len(games) = n) ~> (Len(games) > n)
    /\ \A t \in TickSlots : (ticks[t].pc = "loser") ~> (ticks[t].pc = "idle")
    /\ [][\A t \in TickSlots : ticks[t].pc = "loser" /\ ticks'[t] # ticks[t] =>
            /\ ticks'[t].pc = "idle"
            /\ Len(games') = Len(games) + 1
            /\ {k \in 1..Len(games') : games'[k].gameId = ticks[t].gameId}
                  = {Len(games')}]_vars
    /\ [](\A g \in GameIds : Cardinality(ResultsOf(g)) <= 1)

\* two games were logged and the two agents can play on
C40_Witness == Len(games) = MaxGames /\ TwoPayable

====
